---------------------------- MODULE Spec2Model ----------------------------
(***************************************************************************)
(* A model of the nesemu core: the CPU-side bus (src/nesemu/src/mem.rs)    *)
(* and the 6502 interpreter (src/nesemu/src/cpu.rs).                       *)
(*                                                                         *)
(* Representation.  A fixed-size byte array that the code creates as       *)
(* [0; N] is kept as the finite map of its non-zero cells: a cell that is  *)
(* not in the map holds 0.  prg_rom, a Vec<u8>, is a sequence; the code's  *)
(* 0-based index i is element i + 1.  u8 and u16 values are naturals and   *)
(* every wrapping operation of the code is written with its modulus.       *)
(***************************************************************************)
EXTENDS Integers, Sequences, FiniteSets, TLC

VARIABLES
    cpu,              \* Cpu { pc, sp, a, x, y, status }
    mem,              \* Memory { cpu_ram, prg_rom, cartridge_ram, ... }
    overflow_checks,  \* build profile: TRUE = arithmetic overflow panics
    panicked,         \* the process has aborted with a panic
    last,             \* the most recent operation and its arguments/result
    pre,              \* cpu and mem before the most recent operation
    prg0,             \* the vector handed to Memory::new or load_prg_rom
    budget,           \* bus operations the driver still performs
    fuel,             \* CPU steps the driver still performs
    cpu0,             \* the registers the run started from
    rom_file,         \* the bytes of the file handed to Rom::parse
    rom_data          \* what Rom::parse returned

vars == <<cpu, mem, overflow_checks, panicked, last, pre, prg0, budget, fuel,
          cpu0, rom_file, rom_data>>

-----------------------------------------------------------------------------
(* Bounds of the model *)

\* bus operations of the driver in one run
MaxBusOps == 2
\* bus operations in one run on a full-size PRG-ROM image
MaxPrgOps == 1
\* longest short PRG-ROM vector given to Memory::new
MaxPrgLen == 3
\* CPU steps in one run of a cartridge program
MaxSteps == 10
\* CPU steps from one arbitrary CPU state
MaxStepOps == 2

-----------------------------------------------------------------------------
(* Values *)

Byte == 0..255

\* the outcome of an operation that aborts the process
PANIC == -1

\* no file has been parsed: the program was given its PRG-ROM directly
NotParsed == [kind |-> "none", prg_rom |-> <<>>, chr_rom |-> <<>>]

\* [0; N]
Zeroed == [j \in {} |-> 0]

\* arr[i]
Get(arr, i) == IF i \in DOMAIN arr THEN arr[i] ELSE 0

\* arr[i] = v
Put(arr, i, v) ==
    IF v = 0
    THEN [j \in (DOMAIN arr) \ {i} |-> arr[j]]
    ELSE [j \in (DOMAIN arr) \cup {i} |-> IF j = i THEN v ELSE arr[j]]

\* x.wrapping_add(n), u8 and u16
wrapping_add8(x, n) == (x + n) % 256
wrapping_sub8(x, n) == (x - n) % 256
wrapping_add16(x, n) == (x + n) % 65536
wrapping_sub16(x, n) == (x - n) % 65536

-----------------------------------------------------------------------------
(* Memory (mem.rs) *)

Memory_new(prg_rom) ==
    [ cpu_ram          |-> Zeroed,
      prg_rom          |-> prg_rom,
      cartridge_ram    |-> Zeroed,
      ppu_registers    |-> Zeroed,
      apu_io_registers |-> Zeroed,
      oam_dma          |-> 0 ]

(* Faulty variants of the bus operations.  Each differs from the operation  *)
(* below it in one arm, the way a slip in that arm would; the properties at *)
(* the end of the module are shown to fail on them.                         *)

\* write whose APU/IO arm covers 0x4000-0x4013 only
write_apu_short(m, addr, value) ==
    CASE addr \in \h0000..\h1FFF ->
           [m EXCEPT !.cpu_ram = Put(@, addr % \h0800, value)]
      [] addr \in \h2000..\h3FFF ->
           [m EXCEPT !.ppu_registers = Put(@, (addr - \h2000) % 8, value)]
      [] addr \in \h4000..\h4013 ->
           [m EXCEPT !.apu_io_registers = Put(@, addr - \h4000, value)]
      [] addr = \h4014 -> [m EXCEPT !.oam_dma = value]
      [] addr \in \h6000..\h7FFF ->
           [m EXCEPT !.cartridge_ram = Put(@, addr - \h6000, value)]
      [] OTHER -> m

\* write whose PRG-ROM arm stores the byte
write_through_rom(m, addr, value) ==
    CASE addr \in \h0000..\h1FFF ->
           [m EXCEPT !.cpu_ram = Put(@, addr % \h0800, value)]
      [] addr \in \h2000..\h3FFF ->
           [m EXCEPT !.ppu_registers = Put(@, (addr - \h2000) % 8, value)]
      [] addr \in \h4000..\h4013 \/ addr = \h4015 ->
           [m EXCEPT !.apu_io_registers = Put(@, addr - \h4000, value)]
      [] addr = \h4014 -> [m EXCEPT !.oam_dma = value]
      [] addr \in \h6000..\h7FFF ->
           [m EXCEPT !.cartridge_ram = Put(@, addr - \h6000, value)]
      [] addr \in \h8000..\hFFFF /\ Len(m.prg_rom) > 0 ->
           [m EXCEPT !.prg_rom[((addr - \h8000) % Len(m.prg_rom)) + 1] = value]
      [] OTHER -> m

\* write whose PPU arm indexes the registers without the modulo
write_ppu_flat(m, addr, value) ==
    CASE addr \in \h0000..\h1FFF ->
           [m EXCEPT !.cpu_ram = Put(@, addr % \h0800, value)]
      [] addr \in \h2000..\h3FFF ->
           [m EXCEPT !.ppu_registers = Put(@, addr - \h2000, value)]
      [] addr \in \h4000..\h4013 \/ addr = \h4015 ->
           [m EXCEPT !.apu_io_registers = Put(@, addr - \h4000, value)]
      [] addr = \h4014 -> [m EXCEPT !.oam_dma = value]
      [] addr \in \h6000..\h7FFF ->
           [m EXCEPT !.cartridge_ram = Put(@, addr - \h6000, value)]
      [] OTHER -> m

\* write whose cartridge-RAM arm starts one address early
write_cart_early(m, addr, value) ==
    CASE addr \in \h0000..\h1FFF ->
           [m EXCEPT !.cpu_ram = Put(@, addr % \h0800, value)]
      [] addr \in \h2000..\h3FFF ->
           [m EXCEPT !.ppu_registers = Put(@, (addr - \h2000) % 8, value)]
      [] addr \in \h4000..\h4013 \/ addr = \h4015 ->
           [m EXCEPT !.apu_io_registers = Put(@, addr - \h4000, value)]
      [] addr = \h4014 -> [m EXCEPT !.oam_dma = value]
      [] addr \in \h5FFF..\h7FFF ->
           [m EXCEPT !.cartridge_ram = Put(@, addr - \h5FFF, value)]
      [] OTHER -> m

\* read whose RAM arm indexes the 2 KiB without the modulo
read_ram_flat(m, addr) ==
    CASE addr \in \h0000..\h1FFF -> Get(m.cpu_ram, addr)
      [] addr \in \h2000..\h3FFF -> Get(m.ppu_registers, (addr - \h2000) % 8)
      [] addr \in \h4000..\h4013 \/ addr = \h4015 ->
           Get(m.apu_io_registers, addr - \h4000)
      [] addr = \h4014 -> m.oam_dma
      [] addr \in \h6000..\h7FFF -> Get(m.cartridge_ram, addr - \h6000)
      [] addr \in \h8000..\hFFFF ->
           IF Len(m.prg_rom) = 0 THEN PANIC
           ELSE m.prg_rom[((addr - \h8000) % Len(m.prg_rom)) + 1]
      [] OTHER -> 0

\* read whose PRG-ROM arm takes the address modulo 16 KiB first
read_prg_16k(m, addr) ==
    CASE addr \in \h0000..\h1FFF -> Get(m.cpu_ram, addr % \h0800)
      [] addr \in \h2000..\h3FFF -> Get(m.ppu_registers, (addr - \h2000) % 8)
      [] addr \in \h4000..\h4013 \/ addr = \h4015 ->
           Get(m.apu_io_registers, addr - \h4000)
      [] addr = \h4014 -> m.oam_dma
      [] addr \in \h6000..\h7FFF -> Get(m.cartridge_ram, addr - \h6000)
      [] addr \in \h8000..\hFFFF ->
           IF Len(m.prg_rom) = 0 THEN PANIC
           ELSE m.prg_rom[(((addr - \h8000) % \h4000) % Len(m.prg_rom)) + 1]
      [] OTHER -> 0

\* the remainder by prg_rom.len() panics when the vector is empty
read(m, addr) ==
    CASE addr \in \h0000..\h1FFF ->
           LET mirror_addr == addr % \h0800 IN Get(m.cpu_ram, mirror_addr)
      [] addr \in \h2000..\h3FFF ->
           LET reg == (addr - \h2000) % 8 IN Get(m.ppu_registers, reg)
      [] addr \in \h4000..\h4013 \/ addr = \h4015 ->
           Get(m.apu_io_registers, addr - \h4000)
      [] addr = \h4014 -> m.oam_dma
      [] addr \in \h6000..\h7FFF ->
           Get(m.cartridge_ram, addr - \h6000)
      [] addr \in \h8000..\hFFFF ->
           IF Len(m.prg_rom) = 0
           THEN PANIC
           ELSE LET prg_addr == (addr - \h8000) % Len(m.prg_rom)
                IN  m.prg_rom[prg_addr + 1]
      [] OTHER -> 0

\* write whose PPU arm also stores the byte in the RAM cell of the same index
write_ppu_over_ram(m, addr, value) ==
    CASE addr \in \h0000..\h1FFF ->
           [m EXCEPT !.cpu_ram = Put(@, addr % \h0800, value)]
      [] addr \in \h2000..\h3FFF ->
           [m EXCEPT !.ppu_registers = Put(@, (addr - \h2000) % 8, value),
                     !.cpu_ram = Put(@, (addr - \h2000) % 8, value)]
      [] addr \in \h4000..\h4013 \/ addr = \h4015 ->
           [m EXCEPT !.apu_io_registers = Put(@, addr - \h4000, value)]
      [] addr = \h4014 -> [m EXCEPT !.oam_dma = value]
      [] addr \in \h6000..\h7FFF ->
           [m EXCEPT !.cartridge_ram = Put(@, addr - \h6000, value)]
      [] OTHER -> m

write(m, addr, value) ==
    CASE addr \in \h0000..\h1FFF ->
           LET mirror_addr == addr % \h0800
           IN  [m EXCEPT !.cpu_ram = Put(@, mirror_addr, value)]
      [] addr \in \h2000..\h3FFF ->
           LET reg == (addr - \h2000) % 8
           IN  [m EXCEPT !.ppu_registers = Put(@, reg, value)]
      [] addr \in \h4000..\h4013 \/ addr = \h4015 ->
           [m EXCEPT !.apu_io_registers = Put(@, addr - \h4000, value)]
      [] addr = \h4014 -> [m EXCEPT !.oam_dma = value]
      [] addr \in \h6000..\h7FFF ->
           [m EXCEPT !.cartridge_ram = Put(@, addr - \h6000, value)]
      [] addr \in \h8000..\hFFFF -> m
      [] OTHER -> m

\* self.prg_rom = new_prg
Memory_load_prg_rom(m, new_prg) == [m EXCEPT !.prg_rom = new_prg]

\* reset that leaves the cartridge RAM as it is
Memory_reset_keeps_cart(m) ==
    [m EXCEPT !.cpu_ram = Zeroed,
              !.ppu_registers = Zeroed,
              !.apu_io_registers = Zeroed,
              !.oam_dma = 0]

Memory_reset(m) ==
    [m EXCEPT !.cpu_ram = Zeroed,
              !.cartridge_ram = Zeroed,
              !.ppu_registers = Zeroed,
              !.apu_io_registers = Zeroed,
              !.oam_dma = 0]

\* read_u16 that composes the two bytes high byte first
read_u16_big_endian(m, addr) ==
    LET lo == read(m, addr)
        hi == read(m, wrapping_add16(addr, 1))
    IN  IF lo = PANIC \/ hi = PANIC THEN PANIC ELSE lo * 256 + hi

read_u16(m, addr) ==
    LET lo == read(m, addr)
        hi == read(m, wrapping_add16(addr, 1))
    IN  IF lo = PANIC \/ hi = PANIC THEN PANIC ELSE hi * 256 + lo

-----------------------------------------------------------------------------
(* Bit operations on u8 / u16 values *)

RECURSIVE BitAndN(_, _, _)
BitAndN(a, b, n) ==
    IF n = 0 \/ a = 0 \/ b = 0 THEN 0
    ELSE (a % 2) * (b % 2) + 2 * BitAndN(a \div 2, b \div 2, n - 1)

\* a & b
BitAnd(a, b) == BitAndN(a, b, 16)

\* a | b
BitOr(a, b) == a + b - BitAnd(a, b)

\* a ^ b
BitXor(a, b) == a + b - 2 * BitAnd(a, b)

\* !mask, for a u8
BitNot(mask) == 255 - mask

-----------------------------------------------------------------------------
(* Cpu (cpu.rs) *)

CARRY_FLAG == 1
ZERO_FLAG == 2
INTERRUPT_FLAG == 4
DECIMAL_FLAG == 8
BREAK_FLAG == 16
UNUSED_FLAG == 32
OVERFLOW_FLAG == 64
NEGATIVE_FLAG == 128

Cpu_new == [pc |-> 0, sp |-> 253, a |-> 0, x |-> 0, y |-> 0, status |-> 36]

\* self.status = if cond { self.status | mask } else { self.status & !mask }
SetIf(status, mask, cond) ==
    IF cond THEN BitOr(status, mask) ELSE BitAnd(status, BitNot(mask))

\* reset that also puts the registers back to their power-on values
Cpu_reset_power_on(c, m) ==
    [pc |-> read_u16(m, \hFFFC), sp |-> 253, a |-> 0, x |-> 0, y |-> 0,
     status |-> 36]

\* memory.read_u16(0xFFFC) panics on an empty PRG-ROM, before pc is assigned
Cpu_reset(c, m) ==
    IF read_u16(m, \hFFFC) = PANIC
    THEN c
    ELSE [c EXCEPT !.pc = read_u16(m, \hFFFC)]

update_zero_and_negative_flags(c, result) ==
    [c EXCEPT !.status =
        BitOr(BitOr(BitAnd(c.status, BitNot(BitOr(2, 128))),
                    IF result = 0 THEN 2 ELSE 0),
              IF BitAnd(result, 128) # 0 THEN 128 ELSE 0)]

\* push_u8 that decrements the stack pointer before it writes
push_u8_pre_decrement(s, val) ==
    LET sp1  == wrapping_sub8(s.cpu.sp, 1)
        addr == BitOr(256, sp1)
    IN  [s EXCEPT !.mem = write(s.mem, addr, val), !.cpu.sp = sp1]

push_u8(s, val) ==
    LET addr == BitOr(256, s.cpu.sp)
    IN  [s EXCEPT !.mem = write(s.mem, addr, val),
                  !.cpu.sp = wrapping_sub8(s.cpu.sp, 1)]

\* push_u16 that pushes the low byte first
push_u16_low_first(s, val) ==
    push_u8(push_u8(s, BitAnd(val, 255)), val \div 256)

push_u16(s, val) ==
    push_u8(push_u8(s, val \div 256), BitAnd(val, 255))

\* the value pulled is .val; .s is the step after the pull
pull_u16(s) ==
    LET sp1 == wrapping_add8(s.cpu.sp, 1)
        lo  == read(s.mem, BitOr(256, sp1))
        sp2 == wrapping_add8(sp1, 1)
        hi  == read(s.mem, BitOr(256, sp2))
    IN  [s |-> [s EXCEPT !.cpu.sp = sp2], val |-> BitOr(hi * 256, lo)]

\* pull_status that loads all eight bits of the pulled byte
pull_status_all_bits(s) ==
    LET sp1    == wrapping_add8(s.cpu.sp, 1)
        status == read(s.mem, BitOr(256, sp1))
    IN  [s EXCEPT !.cpu.sp = sp1, !.cpu.status = status]

pull_status(s) ==
    LET sp1    == wrapping_add8(s.cpu.sp, 1)
        status == read(s.mem, BitOr(256, sp1))
    IN  [s EXCEPT !.cpu.sp = sp1,
                  !.cpu.status = BitOr(BitAnd(status, 207),
                                       BitAnd(s.cpu.status, 48))]

\* adc whose overflow test is the one written for subtraction
adc_sub_overflow(c, operand) ==
    LET carry     == BitAnd(c.status, 1)
        a         == c.a
        m         == operand
        result    == a + m + carry
        result_u8 == result % 256
        overflow  == BitAnd(BitAnd(BitXor(a, m), BitXor(a, result)), 128) # 0
        st1 == SetIf(c.status, 1, result > 255)
        st2 == SetIf(st1, 2, result_u8 = 0)
        st3 == SetIf(st2, 128, BitAnd(result_u8, 128) # 0)
        st4 == SetIf(st3, 64, overflow)
    IN  [c EXCEPT !.status = st4, !.a = result_u8]

\* adc that, with the decimal flag set, adds 6 when the low digits exceed 9
adc_decimal(c, operand) ==
    LET carry     == BitAnd(c.status, 1)
        a         == c.a
        m         == operand
        adjust    == IF BitAnd(c.status, DECIMAL_FLAG) # 0
                        /\ (a % 16) + (m % 16) + carry > 9
                     THEN 6 ELSE 0
        result    == a + m + carry + adjust
        result_u8 == result % 256
        overflow  == BitAnd(BitAnd(BitXor(a, result), BitXor(m, result)), 128) # 0
        st1 == SetIf(c.status, 1, result > 255)
        st2 == SetIf(st1, 2, result_u8 = 0)
        st3 == SetIf(st2, 128, BitAnd(result_u8, 128) # 0)
        st4 == SetIf(st3, 64, overflow)
    IN  [c EXCEPT !.status = st4, !.a = result_u8]

adc(c, operand) ==
    LET carry     == BitAnd(c.status, 1)
        a         == c.a
        m         == operand
        result    == a + m + carry
        result_u8 == result % 256
        overflow  == BitAnd(BitAnd(BitXor(a, result), BitXor(m, result)), 128) # 0
        st1 == SetIf(c.status, 1, result > 255)
        st2 == SetIf(st1, 2, result_u8 = 0)
        st3 == SetIf(st2, 128, BitAnd(result_u8, 128) # 0)
        st4 == SetIf(st3, 64, overflow)
    IN  [c EXCEPT !.status = st4, !.a = result_u8]

\* sbc that sets the carry when a borrow occurred
sbc_carry_on_borrow(c, operand) ==
    LET borrow    == IF BitAnd(c.status, 1) = 0 THEN 1 ELSE 0
        a         == c.a
        m         == operand
        result    == wrapping_sub16(wrapping_sub16(a, m), borrow)
        result_u8 == result % 256
        overflow  == BitAnd(BitAnd(BitXor(a, m), BitXor(a, result)), 128) # 0
        st1 == SetIf(c.status, 1, result > 255)
        st2 == SetIf(st1, 2, result_u8 = 0)
        st3 == SetIf(st2, 128, BitAnd(result_u8, 128) # 0)
        st4 == SetIf(st3, 64, overflow)
    IN  [c EXCEPT !.status = st4, !.a = result_u8]

\* sbc that subtracts the carry instead of the borrow
sbc_subtracts_carry(c, operand) ==
    LET borrow    == IF BitAnd(c.status, 1) = 0 THEN 0 ELSE 1
        a         == c.a
        m         == operand
        result    == wrapping_sub16(wrapping_sub16(a, m), borrow)
        result_u8 == result % 256
        overflow  == BitAnd(BitAnd(BitXor(a, m), BitXor(a, result)), 128) # 0
        st1 == SetIf(c.status, 1, result <= 255)
        st2 == SetIf(st1, 2, result_u8 = 0)
        st3 == SetIf(st2, 128, BitAnd(result_u8, 128) # 0)
        st4 == SetIf(st3, 64, overflow)
    IN  [c EXCEPT !.status = st4, !.a = result_u8]

sbc(c, operand) ==
    LET borrow    == IF BitAnd(c.status, 1) = 0 THEN 1 ELSE 0
        a         == c.a
        m         == operand
        result    == wrapping_sub16(wrapping_sub16(a, m), borrow)
        result_u8 == result % 256
        overflow  == BitAnd(BitAnd(BitXor(a, m), BitXor(a, result)), 128) # 0
        st1 == SetIf(c.status, 1, result <= 255)
        st2 == SetIf(st1, 2, result_u8 = 0)
        st3 == SetIf(st2, 128, BitAnd(result_u8, 128) # 0)
        st4 == SetIf(st3, 64, overflow)
    IN  [c EXCEPT !.status = st4, !.a = result_u8]

and(c, operand) ==
    LET a == BitAnd(c.a, operand)
    IN  update_zero_and_negative_flags([c EXCEPT !.a = a], a)

ora(c, operand) ==
    LET a == BitOr(c.a, operand)
    IN  update_zero_and_negative_flags([c EXCEPT !.a = a], a)

eor(c, operand) ==
    LET a == BitXor(c.a, operand)
    IN  update_zero_and_negative_flags([c EXCEPT !.a = a], a)

\* a BIT that copies N and V from A AND operand rather than from the operand
bit_of_result(c, operand) ==
    LET r   == BitAnd(c.a, operand)
        st1 == SetIf(c.status, 2, r = 0)
        st2 == SetIf(st1, 128, BitAnd(r, 128) # 0)
        st3 == SetIf(st2, 64, BitAnd(r, 64) # 0)
    IN  [c EXCEPT !.status = st3]

bit(c, operand) ==
    LET st1 == SetIf(c.status, 2, BitAnd(c.a, operand) = 0)
        st2 == SetIf(st1, 128, BitAnd(operand, 128) # 0)
        st3 == SetIf(st2, 64, BitAnd(operand, 64) # 0)
    IN  [c EXCEPT !.status = st3]

\* the shifts and rotates return the result as .val and the registers as .cpu
asl(c, operand) ==
    LET result == (operand * 2) % 256
        c1 == [c EXCEPT !.status = SetIf(c.status, 1, BitAnd(operand, 128) # 0)]
    IN  [cpu |-> update_zero_and_negative_flags(c1, result), val |-> result]

\* lsr as an arithmetic shift: bit 7 of the operand stays in the result
lsr_keeps_sign(c, operand) ==
    LET result == (operand \div 2) + BitAnd(operand, 128)
        st1 == SetIf(c.status, 1, BitAnd(operand, 1) # 0)
    IN  [cpu |-> [c EXCEPT !.status = BitAnd(st1, 127)], val |-> result]

lsr(c, operand) ==
    LET result == operand \div 2
        st1 == SetIf(c.status, 1, BitAnd(operand, 1) # 0)
    IN  [cpu |-> [c EXCEPT !.status = BitAnd(st1, 127)], val |-> result]

rol(c, operand) ==
    LET carry_in  == BitAnd(c.status, 1)
        result    == BitOr(operand * 2, carry_in)
        c1 == [c EXCEPT !.status = SetIf(c.status, 1, BitAnd(operand, 128) # 0)]
        result_u8 == result % 256
    IN  [cpu |-> update_zero_and_negative_flags(c1, result_u8), val |-> result_u8]

\* ror that shifts a zero into bit 7, the carry-in dropped
ror_drops_carry(c, operand) ==
    LET result == operand \div 2
        c1 == [c EXCEPT !.status = SetIf(c.status, 1, BitAnd(operand, 1) # 0)]
    IN  [cpu |-> update_zero_and_negative_flags(c1, result), val |-> result]

ror(c, operand) ==
    LET carry_in == (BitAnd(c.status, 1) * 128) % 256
        result   == BitOr(operand \div 2, carry_in)
        c1 == [c EXCEPT !.status = SetIf(c.status, 1, BitAnd(operand, 1) # 0)]
    IN  [cpu |-> update_zero_and_negative_flags(c1, result), val |-> result]

\* compare whose carry needs the register to be strictly greater
compare_strict(c, reg, operand) ==
    LET m      == operand
        result == wrapping_sub16(reg, m)
        st1 == SetIf(c.status, 1, reg > m)
        st2 == SetIf(st1, 2, (result % 256) = 0)
        st3 == SetIf(st2, 128, BitAnd(result % 256, 128) # 0)
    IN  [c EXCEPT !.status = st3]

\* cmp, cpx and cpy are the same code on self.a, self.x and self.y
compare(c, reg, operand) ==
    LET m      == operand
        result == wrapping_sub16(reg, m)
        st1 == SetIf(c.status, 1, reg >= m)
        st2 == SetIf(st1, 2, (result % 256) = 0)
        st3 == SetIf(st2, 128, BitAnd(result % 256, 128) # 0)
    IN  [c EXCEPT !.status = st3]

cmp(c, operand) == compare(c, c.a, operand)
cpx(c, operand) == compare(c, c.x, operand)
cpy(c, operand) == compare(c, c.y, operand)

-----------------------------------------------------------------------------
(* exec_next_instr.  A step in progress is a record s: the registers       *)
(* (.cpu), the bus (.mem) and whether the step has panicked (.panic).      *)

\* self.pc += n: an overflow panics in a build with overflow checks and
\* wraps in a build without
pc_add_assign(s, n, checks) ==
    IF s.cpu.pc + n > 65535 /\ checks
    THEN [s EXCEPT !.panic = TRUE]
    ELSE [s EXCEPT !.cpu.pc = (s.cpu.pc + n) % 65536]

\* self.pc - 1, an argument of the log line of the default arm
pc_minus_one(s, checks) ==
    IF s.cpu.pc = 0 /\ checks
    THEN [s EXCEPT !.panic = TRUE]
    ELSE s

\* self.pc = self.pc.wrapping_add(n)
advance(s, n) == [s EXCEPT !.cpu.pc = wrapping_add16(s.cpu.pc, n)]

\* the operand word at pc: (hi << 8) | lo
operand_u16(s) ==
    LET lo == read(s.mem, s.cpu.pc)
        hi == read(s.mem, wrapping_add16(s.cpu.pc, 1))
    IN  BitOr(hi * 256, lo)

\* the addressing mode of every opcode that has an operand in memory
Mode(opcode) ==
    CASE opcode \in {\hA9, \hA2, \hA0, \h69, \hE9, \h29, \h09, \h49,
                     \hC9, \hE0, \hC0} -> "imm"
      [] opcode \in {\hA5, \hA6, \hA4, \h85, \h86, \h84, \h65, \hE5,
                     \hE6, \hC6, \h25, \h05, \h45, \h24, \h06, \h46,
                     \h26, \h66, \hC5, \hE4, \hC4} -> "zp"
      [] opcode \in {\hB5, \hB4, \h95, \h94, \h75, \hF5, \hF6, \hD6,
                     \h35, \h15, \h55, \h16, \h56, \h36, \h76, \hD5} -> "zpx"
      [] opcode \in {\hB6, \h96} -> "zpy"
      [] opcode \in {\hAD, \hAE, \hAC, \h8D, \h8E, \h8C, \h6D, \hED,
                     \hEE, \hCE, \h2D, \h0D, \h4D, \h2C, \h0E, \h4E,
                     \h2E, \h6E, \hCD, \hEC, \hCC} -> "abs"
      [] opcode \in {\hBD, \hBC, \h9D, \h7D, \hFD, \hFE, \hDE, \h3D,
                     \h1D, \h5D, \h1E, \h5E, \h3E, \h7E, \hDD} -> "absx"
      [] opcode \in {\hB9, \hBE, \h99, \h79, \hF9, \h39, \h19, \h59,
                     \hD9} -> "absy"
      [] opcode \in {\hA1, \h81, \h61, \hE1, \h21, \h01, \h41, \hC1} -> "indx"
      [] opcode \in {\hB1, \h91, \h71, \hF1, \h31, \h11, \h51, \hD1} -> "indy"
      [] OTHER -> "none"

\* the operand bytes the mode reads at pc
OperandLen(mode) ==
    CASE mode \in {"imm", "zp", "zpx", "zpy", "indx", "indy"} -> 1
      [] mode \in {"abs", "absx", "absy"} -> 2
      [] OTHER -> 0

\* EffectiveAddr whose zero-page sums and pointer increments are 16-bit
\* additions, so that they carry into page one
EffectiveAddr_carries(s, mode) ==
    CASE mode = "imm"  -> s.cpu.pc
      [] mode = "zp"   -> read(s.mem, s.cpu.pc)
      [] mode = "zpx"  -> read(s.mem, s.cpu.pc) + s.cpu.x
      [] mode = "zpy"  -> read(s.mem, s.cpu.pc) + s.cpu.y
      [] mode = "abs"  -> operand_u16(s)
      [] mode = "absx" -> wrapping_add16(operand_u16(s), s.cpu.x)
      [] mode = "absy" -> wrapping_add16(operand_u16(s), s.cpu.y)
      [] mode = "indx" ->
           LET base == read(s.mem, s.cpu.pc) + s.cpu.x
               lo   == read(s.mem, base)
               hi   == read(s.mem, base + 1)
           IN  BitOr(hi * 256, lo)
      [] mode = "indy" ->
           LET base == read(s.mem, s.cpu.pc)
               lo   == read(s.mem, base)
               hi   == read(s.mem, base + 1)
           IN  wrapping_add16(BitOr(hi * 256, lo), s.cpu.y)
      [] OTHER -> 0

\* the address the mode resolves to, pc being at the first operand byte
\* (an immediate operand is the byte at pc itself)
EffectiveAddr(s, mode) ==
    CASE mode = "imm"  -> s.cpu.pc
      [] mode = "zp"   -> read(s.mem, s.cpu.pc)
      [] mode = "zpx"  -> wrapping_add8(read(s.mem, s.cpu.pc), s.cpu.x)
      [] mode = "zpy"  -> wrapping_add8(read(s.mem, s.cpu.pc), s.cpu.y)
      [] mode = "abs"  -> operand_u16(s)
      [] mode = "absx" -> wrapping_add16(operand_u16(s), s.cpu.x)
      [] mode = "absy" -> wrapping_add16(operand_u16(s), s.cpu.y)
      [] mode = "indx" ->
           LET base == wrapping_add8(read(s.mem, s.cpu.pc), s.cpu.x)
               lo   == read(s.mem, base)
               hi   == read(s.mem, wrapping_add8(base, 1))
           IN  BitOr(hi * 256, lo)
      [] mode = "indy" ->
           LET base == read(s.mem, s.cpu.pc)
               lo   == read(s.mem, base)
               hi   == read(s.mem, wrapping_add8(base, 1))
           IN  wrapping_add16(BitOr(hi * 256, lo), s.cpu.y)
      [] OTHER -> 0

\* self.<reg> = value; self.update_zero_and_negative_flags(self.<reg>)
load_a(s, value) ==
    [s EXCEPT !.cpu = update_zero_and_negative_flags([@ EXCEPT !.a = value], value)]
load_x(s, value) ==
    [s EXCEPT !.cpu = update_zero_and_negative_flags([@ EXCEPT !.x = value], value)]
load_y(s, value) ==
    [s EXCEPT !.cpu = update_zero_and_negative_flags([@ EXCEPT !.y = value], value)]

\* a store that sets Z and N from the value stored, as a load does
store_updates_flags(s, addr, value) ==
    [s EXCEPT !.mem = write(s.mem, addr, value),
              !.cpu = update_zero_and_negative_flags(@, value)]

\* memory.write(addr, value)
store(s, addr, value) == [s EXCEPT !.mem = write(s.mem, addr, value)]

\* INC / DEC: memory.write(addr, value); update_zero_and_negative_flags(value)
modify(s, addr, value) ==
    [s EXCEPT !.mem = write(s.mem, addr, value),
              !.cpu = update_zero_and_negative_flags(@, value)]

\* ASL / LSR / ROL / ROR on memory: r is what the helper returned
shift_mem(s, addr, r) ==
    [s EXCEPT !.cpu = r.cpu, !.mem = write(s.mem, addr, r.val)]

\* ASL / LSR / ROL / ROR on the accumulator: self.a = self.asl(.., self.a, true)
shift_acc(s, r) == [s EXCEPT !.cpu = [r.cpu EXCEPT !.a = r.val]]

\* a branch that adds the operand byte as an unsigned number
branch_unsigned(s, taken) ==
    LET byte == read(s.mem, s.cpu.pc)
        s1   == advance(s, 1)
    IN  IF taken
        THEN [s1 EXCEPT !.cpu.pc = (s1.cpu.pc + byte) % 65536]
        ELSE s1

\* a relative branch: pc is at the offset byte
branch(s, taken) ==
    LET byte   == read(s.mem, s.cpu.pc)
        offset == IF byte >= 128 THEN byte - 256 ELSE byte
        s1     == advance(s, 1)
    IN  IF taken
        THEN [s1 EXCEPT !.cpu.pc = (s1.cpu.pc + offset) % 65536]
        ELSE s1

\* brk that pushes the address after the opcode, without the padding byte
brk_no_padding(s) ==
    LET s2 == push_u16(s, s.cpu.pc)
        s3 == push_u8(s2, BitOr(s2.cpu.status, \h10))
    IN  [s3 EXCEPT !.cpu.status = BitOr(s3.cpu.status, \h04),
                   !.cpu.pc = read_u16(s3.mem, \hFFFE)]

\* brk that pushes P as it is, without the break bit
brk_pushes_plain_status(s) ==
    LET s1 == [s EXCEPT !.cpu.pc = (s.cpu.pc + 1) % 65536]
        s2 == push_u16(s1, s1.cpu.pc)
        s3 == push_u8(s2, s2.cpu.status)
    IN  [s3 EXCEPT !.cpu.status = BitOr(s3.cpu.status, \h04),
                   !.cpu.pc = read_u16(s3.mem, \hFFFE)]

\* the first 0x00 arm of the match; the second one is unreachable
brk(s) ==
    LET s1 == advance(s, 1)
        s2 == push_u16(s1, s1.cpu.pc)
        s3 == push_u8(s2, BitOr(s2.cpu.status, \h10))
        s4 == [s3 EXCEPT !.cpu.status = BitOr(s3.cpu.status, \h04)]
    IN  IF read_u16(s4.mem, \hFFFE) = PANIC
        THEN [s4 EXCEPT !.panic = TRUE]
        ELSE [s4 EXCEPT !.cpu.pc = read_u16(s4.mem, \hFFFE)]

\* jmp_indirect that always reads the high byte at addr + 1
jmp_indirect_carries(s) ==
    LET addr == operand_u16(s)
        lo   == read(s.mem, addr)
        hi   == read(s.mem, wrapping_add16(addr, 1))
    IN  [s EXCEPT !.cpu.pc = BitOr(hi * 256, lo)]

jmp_indirect(s) ==
    LET addr == operand_u16(s)
        lo   == read(s.mem, addr)
        hi   == IF BitAnd(addr, \hFF) = \hFF
                THEN read(s.mem, BitAnd(addr, \hFF00))
                ELSE read(s.mem, wrapping_add16(addr, 1))
    IN  IF lo = PANIC \/ hi = PANIC
        THEN [s EXCEPT !.panic = TRUE]
        ELSE [s EXCEPT !.cpu.pc = BitOr(hi * 256, lo)]

jsr(s) ==
    LET target_addr == operand_u16(s)
        return_addr == wrapping_add16(s.cpu.pc, 1)
    IN  [push_u16(s, return_addr) EXCEPT !.cpu.pc = target_addr]

rts(s) ==
    LET r == pull_u16(s)
    IN  [r.s EXCEPT !.cpu.pc = wrapping_add16(r.val, 1)]

\* rti that adds one to the pulled address, as rts does
rti_adds_one(s) ==
    LET r == pull_u16(pull_status(s))
    IN  [r.s EXCEPT !.cpu.pc = wrapping_add16(r.val, 1)]

rti(s) ==
    LET r == pull_u16(pull_status(s))
    IN  [r.s EXCEPT !.cpu.pc = r.val]

pla(s) ==
    LET sp1  == wrapping_add8(s.cpu.sp, 1)
        addr == BitOr(\h0100, sp1)
    IN  load_a([s EXCEPT !.cpu.sp = sp1], read(s.mem, addr))

\* php that sets only the break flag in the pushed byte, as the BRK arm does
php_break_only(s) == push_u8(s, BitOr(s.cpu.status, \h10))

php(s) ==
    LET status == BitOr(s.cpu.status, \h30)
    IN  push_u8(s, status)

\* plp that loads all eight bits of the pulled byte
plp_loads_all_bits(s) ==
    LET sp1    == wrapping_add8(s.cpu.sp, 1)
        addr   == BitOr(\h0100, sp1)
        status == read(s.mem, addr)
    IN  [s EXCEPT !.cpu.sp = sp1, !.cpu.status = status]

plp(s) ==
    LET sp1    == wrapping_add8(s.cpu.sp, 1)
        addr   == BitOr(\h0100, sp1)
        status == read(s.mem, addr)
    IN  [s EXCEPT !.cpu.sp = sp1,
                  !.cpu.status = BitOr(BitAnd(status, BitNot(\h30)),
                                       BitAnd(s.cpu.status, \h30))]

\* the operand bytes the arm of opcode reads at pc: those of its addressing
\* mode, the target of JMP and JSR, the offset of a branch
OperandReads(opcode) ==
    IF opcode \in {\h4C, \h6C, \h20} THEN 2
    ELSE IF opcode \in {\hF0, \hD0, \hB0, \h90, \h30, \h10, \h70, \h50} THEN 1
    ELSE OperandLen(Mode(opcode))

\* the arm of opcode calls memory.read(addr) on its effective address: every
\* arm with a memory operand but those of STA, STX, STY
DataRead(opcode) ==
    /\ Mode(opcode) \notin {"none", "imm"}
    /\ opcode \notin {\h85, \h95, \h8D, \h9D, \h99, \h81, \h91,
                      \h86, \h96, \h8E, \h84, \h94, \h8C}

\* the match of exec_next_instr: s is the step after the opcode fetch.  A
\* memory.read that panics (an address in 0x8000-0xFFFF on an empty
\* PRG-ROM) ends the step where the arm makes it: an operand read before PC
\* moves over the operand, the read of the effective address after
execute(opcode, s, checks) ==
    LET mode == Mode(opcode)
        addr == EffectiveAddr(s, mode)
        t    == advance(s, OperandLen(mode))
        c    == t.cpu
        m    == read(s.mem, addr)
    IN
    IF \E j \in 0..(OperandReads(opcode) - 1) :
          read(s.mem, wrapping_add16(s.cpu.pc, j)) = PANIC
    THEN [s EXCEPT !.panic = TRUE]
    ELSE IF DataRead(opcode) /\ m = PANIC
    THEN [t EXCEPT !.panic = TRUE]
    ELSE
    CASE opcode \in {\hA9, \hA5, \hB5, \hAD, \hBD, \hB9, \hA1, \hB1} -> load_a(t, m)
      [] opcode \in {\hA2, \hA6, \hB6, \hAE, \hBE} -> load_x(t, m)
      [] opcode \in {\hA0, \hA4, \hB4, \hAC, \hBC} -> load_y(t, m)
      [] opcode = \h00 -> brk(s)
      [] opcode \in {\h85, \h95, \h8D, \h9D, \h99, \h81, \h91} -> store(t, addr, c.a)
      [] opcode \in {\h86, \h96, \h8E} -> store(t, addr, c.x)
      [] opcode \in {\h84, \h94, \h8C} -> store(t, addr, c.y)
      [] opcode = \hAA -> load_x(s, s.cpu.a)
      [] opcode = \hA8 -> load_y(s, s.cpu.a)
      [] opcode = \hBA -> load_x(s, s.cpu.sp)
      [] opcode = \h8A -> load_a(s, s.cpu.x)
      [] opcode = \h9A -> [s EXCEPT !.cpu.sp = s.cpu.x]
      [] opcode = \h98 -> load_a(s, s.cpu.y)
      [] opcode = \h48 -> push_u8(s, s.cpu.a)
      [] opcode = \h08 -> php(s)
      [] opcode = \h68 -> pla(s)
      [] opcode = \h28 -> plp(s)
      [] opcode \in {\h69, \h65, \h75, \h6D, \h7D, \h79, \h61, \h71} ->
           [t EXCEPT !.cpu = adc(c, m)]
      [] opcode \in {\hE9, \hE5, \hF5, \hED, \hFD, \hF9, \hE1, \hF1} ->
           [t EXCEPT !.cpu = sbc(c, m)]
      [] opcode \in {\hE6, \hF6, \hEE, \hFE} -> modify(t, addr, wrapping_add8(m, 1))
      [] opcode = \hE8 -> load_x(s, wrapping_add8(s.cpu.x, 1))
      [] opcode = \hC8 -> load_y(s, wrapping_add8(s.cpu.y, 1))
      [] opcode \in {\hC6, \hD6, \hCE, \hDE} -> modify(t, addr, wrapping_sub8(m, 1))
      [] opcode = \hCA -> load_x(s, wrapping_sub8(s.cpu.x, 1))
      [] opcode = \h88 -> load_y(s, wrapping_sub8(s.cpu.y, 1))
      [] opcode \in {\h29, \h25, \h35, \h2D, \h3D, \h39, \h21, \h31} ->
           [t EXCEPT !.cpu = and(c, m)]
      [] opcode \in {\h09, \h05, \h15, \h0D, \h1D, \h19, \h01, \h11} ->
           [t EXCEPT !.cpu = ora(c, m)]
      [] opcode \in {\h49, \h45, \h55, \h4D, \h5D, \h59, \h41, \h51} ->
           [t EXCEPT !.cpu = eor(c, m)]
      [] opcode \in {\h24, \h2C} -> [t EXCEPT !.cpu = bit(c, m)]
      [] opcode = \h0A -> shift_acc(s, asl(s.cpu, s.cpu.a))
      [] opcode \in {\h06, \h16, \h0E, \h1E} -> shift_mem(t, addr, asl(c, m))
      [] opcode = \h4A -> shift_acc(s, lsr(s.cpu, s.cpu.a))
      [] opcode \in {\h46, \h56, \h4E, \h5E} -> shift_mem(t, addr, lsr(c, m))
      [] opcode = \h2A -> shift_acc(s, rol(s.cpu, s.cpu.a))
      [] opcode \in {\h26, \h36, \h2E, \h3E} -> shift_mem(t, addr, rol(c, m))
      [] opcode = \h6A -> shift_acc(s, ror(s.cpu, s.cpu.a))
      [] opcode \in {\h66, \h76, \h6E, \h7E} -> shift_mem(t, addr, ror(c, m))
      [] opcode \in {\hC9, \hC5, \hD5, \hCD, \hDD, \hD9, \hC1, \hD1} ->
           [t EXCEPT !.cpu = cmp(c, m)]
      [] opcode \in {\hE0, \hE4, \hEC} -> [t EXCEPT !.cpu = cpx(c, m)]
      [] opcode \in {\hC0, \hC4, \hCC} -> [t EXCEPT !.cpu = cpy(c, m)]
      [] opcode = \h4C -> [s EXCEPT !.cpu.pc = operand_u16(s)]
      [] opcode = \h6C -> jmp_indirect(s)
      [] opcode = \h20 -> jsr(s)
      [] opcode = \h60 -> rts(s)
      [] opcode = \hF0 -> branch(s, BitAnd(s.cpu.status, ZERO_FLAG) # 0)
      [] opcode = \hD0 -> branch(s, BitAnd(s.cpu.status, ZERO_FLAG) = 0)
      [] opcode = \hB0 -> branch(s, BitAnd(s.cpu.status, CARRY_FLAG) # 0)
      [] opcode = \h90 -> branch(s, BitAnd(s.cpu.status, CARRY_FLAG) = 0)
      [] opcode = \h30 -> branch(s, BitAnd(s.cpu.status, NEGATIVE_FLAG) # 0)
      [] opcode = \h10 -> branch(s, BitAnd(s.cpu.status, NEGATIVE_FLAG) = 0)
      [] opcode = \h70 -> branch(s, BitAnd(s.cpu.status, OVERFLOW_FLAG) # 0)
      [] opcode = \h50 -> branch(s, BitAnd(s.cpu.status, OVERFLOW_FLAG) = 0)
      [] opcode = \h40 -> rti(s)
      [] opcode = \hEA -> s
      [] opcode = \h18 -> [s EXCEPT !.cpu.status = BitAnd(@, \hFE)]
      [] opcode = \h38 -> [s EXCEPT !.cpu.status = BitOr(@, \h01)]
      [] opcode = \hD8 -> [s EXCEPT !.cpu.status = BitAnd(@, \hF7)]
      [] opcode = \hF8 -> [s EXCEPT !.cpu.status = BitOr(@, \h08)]
      [] opcode = \h58 -> [s EXCEPT !.cpu.status = BitAnd(@, \hFB)]
      [] opcode = \h78 -> [s EXCEPT !.cpu.status = BitOr(@, \h04)]
      [] opcode = \hB8 -> [s EXCEPT !.cpu.status = BitAnd(@, \hBF)]
      [] opcode \in {\h1A, \h3A, \h5A, \h7A, \hDA, \hFA} -> s
      [] opcode \in {\h80, \h82, \h89, \hC2, \hE2, \h04, \h44, \h64,
                     \h14, \h34, \h54, \h74, \hD4, \hF4} -> pc_add_assign(s, 1, checks)
      [] opcode \in {\h0C, \h1C, \h3C, \h5C, \h7C, \hDC, \hFC} ->
           pc_add_assign(s, 2, checks)
      [] OTHER -> pc_minus_one(s, checks)

\* one step from registers c on bus m, in a build with or without overflow
\* checks: the registers and the bus after it, and whether it panicked
exec_next_instr(c, m, checks) ==
    LET opcode == read(m, c.pc)
        s      == [cpu |-> [c EXCEPT !.pc = wrapping_add16(c.pc, 1)],
                   mem |-> m, panic |-> FALSE]
    IN  IF opcode = PANIC
        THEN [cpu |-> c, mem |-> m, panic |-> TRUE]
        ELSE execute(opcode, s, checks)

-----------------------------------------------------------------------------
(* Inputs of the bus specifications *)

\* the first and the last address of every region of the map, and mirrors
BusAddrs ==
    { \h0000, \h02FF, \h0300, \h07FF, \h0800, \h1FFF,
      \h2000, \h2007, \h2008, \h3FFF,
      \h4000, \h4013, \h4014, \h4015,
      \h4016, \h4017, \h4018, \h5FFF,
      \h6000, \h7FFF,
      \h8000, \hBFFF, \hC000, \hFFFC, \hFFFF }

BusVals == {0, 1, 255}

\* read_u16 at a page boundary, at a region boundary and at the top of memory
U16Addrs == { \h02FF, \h1FFF, \h3FFF, \h7FFF, \hFFFC, \hFFFF }

\* a PRG-ROM image of length n whose bytes differ from cell to cell and
\* from one 256-byte page to the next
Image(n, k) ==
    <<>> \o [i \in 1..n |-> (i * 37 + (i \div 256) * 11 + k) % 256]

PrgImages == { Image(n, 101) : n \in 0..MaxPrgLen }

NoOp == [op |-> "new", addr |-> 0, val |-> 0]

Snapshot == [cpu |-> cpu, mem |-> mem]

InitBus ==
    /\ prg0 \in PrgImages
    /\ mem = Memory_new(prg0)
    /\ cpu = Cpu_new
    /\ overflow_checks = TRUE
    /\ panicked = FALSE
    /\ last = NoOp
    /\ pre = [cpu |-> Cpu_new, mem |-> Memory_new(prg0)]
    /\ budget = MaxBusOps
    /\ fuel = 0
    /\ cpu0 = cpu
    /\ rom_file = <<>>
    /\ rom_data = NotParsed

\* memory.write(a, v), called by the driver
BusWrite(a, v) ==
    /\ ~panicked /\ budget > 0
    /\ mem' = write(mem, a, v)
    /\ last' = [op |-> "write", addr |-> a, val |-> v]
    /\ pre' = Snapshot
    /\ budget' = budget - 1
    /\ UNCHANGED <<cpu, overflow_checks, panicked, prg0, fuel, cpu0,
                 rom_file, rom_data>>

\* memory.read(a): the byte read is last.val
BusRead(a) ==
    /\ ~panicked /\ budget > 0
    /\ last' = [op |-> "read", addr |-> a, val |-> read(mem, a)]
    /\ panicked' = (read(mem, a) = PANIC)
    /\ pre' = Snapshot
    /\ budget' = budget - 1
    /\ UNCHANGED <<cpu, mem, overflow_checks, prg0, fuel, cpu0,
                 rom_file, rom_data>>

\* memory.read_u16(a): the word read is last.val
BusReadU16(a) ==
    /\ ~panicked /\ budget > 0
    /\ last' = [op |-> "read_u16", addr |-> a, val |-> read_u16(mem, a)]
    /\ panicked' = (read_u16(mem, a) = PANIC)
    /\ pre' = Snapshot
    /\ budget' = budget - 1
    /\ UNCHANGED <<cpu, mem, overflow_checks, prg0, fuel, cpu0,
                 rom_file, rom_data>>

\* memory.reset()
BusReset ==
    /\ ~panicked /\ budget > 0
    /\ mem' = Memory_reset(mem)
    /\ last' = [op |-> "reset", addr |-> 0, val |-> 0]
    /\ pre' = Snapshot
    /\ budget' = budget - 1
    /\ UNCHANGED <<cpu, overflow_checks, panicked, prg0, fuel, cpu0,
                 rom_file, rom_data>>

\* memory.load_prg_rom(new_prg)
BusLoadPrg(new_prg) ==
    /\ ~panicked /\ budget > 0
    /\ mem' = Memory_load_prg_rom(mem, new_prg)
    /\ prg0' = new_prg
    /\ last' = [op |-> "load_prg_rom", addr |-> 0, val |-> Len(new_prg)]
    /\ pre' = Snapshot
    /\ budget' = budget - 1
    /\ UNCHANGED <<cpu, overflow_checks, panicked, fuel, cpu0,
                 rom_file, rom_data>>

\* the vectors given to load_prg_rom: none, one byte, two bytes
LoadImages == { <<>>, <<\h09>>, <<\h09, \h08>> }

NextBus ==
    \/ \E a \in BusAddrs, v \in BusVals : BusWrite(a, v)
    \/ \E a \in BusAddrs : BusRead(a)
    \/ \E a \in U16Addrs : BusReadU16(a)
    \/ BusReset
    \/ \E new_prg \in LoadImages : BusLoadPrg(new_prg)

SpecBus == InitBus /\ [][NextBus]_vars


-----------------------------------------------------------------------------
(* The emulator driven as main.rs drives it: a cartridge program, the CPU  *)
(* reset from its vector and stepped, with bus writes and resets between   *)
(* the steps.  PRG-ROM images are 32 bytes long, so 0x8000 + i reads cell  *)
(* i mod 32 and the vectors at 0xFFFA..0xFFFF read the last six cells.     *)

\* the bytes of a program, padded with NOP (0xEA) up to the vectors; NMI and
\* reset vectors point to 0x8000, the IRQ/BRK vector to 0x8010
Cartridge(code) ==
    [i \in 1..32 |->
        IF i <= Len(code) THEN code[i]
        ELSE IF i <= 26 THEN \hEA
        ELSE <<\h00, \h80, \h00, \h80, \h10, \h80>>[i - 26]]

\* LDA #$5A; STA $0801; STA $200A; STA $8000; STA $4018; PHA; BRK;
\* STA $4016; INC $01; JMP $8000
ProgramA ==
    Cartridge(<<\hA9, \h5A, \h8D, \h01, \h08, \h8D, \h0A, \h20,
                \h8D, \h00, \h80, \h8D, \h18, \h40, \h48, \h00,
                \h8D, \h16, \h40, \hE6, \h01, \h4C, \h00, \h80>>)

\* LDX #$FF; TXS; LDA #$01; STA $1701,X; STA $3FFF; STA $FFFF; JSR $8012;
\* NOP; STA $6000; RTS; JMP $8000
ProgramB ==
    Cartridge(<<\hA2, \hFF, \h9A, \hA9, \h01, \h9D, \h01, \h17,
                \h8D, \hFF, \h3F, \h8D, \hFF, \hFF, \h20, \h12,
                \h80, \hEA, \h8D, \h00, \h60, \h60, \h4C, \h00, \h80>>)

Programs == {ProgramA, ProgramB}

\* the addresses and bytes the driver writes between steps
DriverAddrs == { \h0001, \h1801, \h2002, \h3FFA, \h4014, \h4018, \h5FFF,
                 \h6000, \h8000, \hFFFC }

DriverVals == {0, \h77}

Init ==
    /\ prg0 \in Programs
    /\ mem = Memory_new(prg0)
    /\ cpu = Cpu_new
    /\ overflow_checks \in BOOLEAN
    /\ panicked = FALSE
    /\ last = NoOp
    /\ pre = [cpu |-> Cpu_new, mem |-> Memory_new(prg0)]
    /\ budget = MaxBusOps
    /\ fuel = MaxSteps
    /\ cpu0 = cpu
    /\ rom_file = <<>>
    /\ rom_data = NotParsed

\* cpu.reset(&memory)
CpuReset ==
    /\ ~panicked /\ budget > 0
    /\ cpu' = Cpu_reset(cpu, mem)
    /\ panicked' = (read_u16(mem, \hFFFC) = PANIC)
    /\ last' = [op |-> "cpu_reset", addr |-> 0, val |-> 0]
    /\ pre' = Snapshot
    /\ budget' = budget - 1
    /\ UNCHANGED <<mem, overflow_checks, prg0, fuel, cpu0,
                 rom_file, rom_data>>

\* cpu.exec_next_instr(&mut memory): last records the PC the opcode was
\* fetched from and the opcode
Step ==
    /\ ~panicked /\ fuel > 0
    /\ LET r == exec_next_instr(cpu, mem, overflow_checks)
       IN  /\ cpu' = r.cpu
           /\ mem' = r.mem
           /\ panicked' = r.panic
    /\ last' = [op |-> "step", addr |-> cpu.pc, val |-> read(mem, cpu.pc)]
    /\ pre' = Snapshot
    /\ fuel' = fuel - 1
    /\ UNCHANGED <<overflow_checks, prg0, budget, cpu0,
                 rom_file, rom_data>>

Next ==
    \/ CpuReset
    \/ Step
    \/ \E a \in DriverAddrs, v \in DriverVals : BusWrite(a, v)
    \/ BusReset

Spec == Init /\ [][Next]_vars

-----------------------------------------------------------------------------
(* One instruction from an arbitrary CPU state: every opcode byte, fetched  *)
(* from RAM, from PRG-ROM and from the last three addresses of the address  *)
(* space, in a build with and without overflow checks.                      *)

StepPcs == { \h0200, \h8000, \hFFFD, \hFFFE, \hFFFF }

Opcodes == 0..255

\* the first and the second operand byte
Operands1 == { \h00, \h7F, \h80, \hFF }
Operands2 == { \h00, \h03 }

RegisterFiles ==
    { [a |-> \h00, x |-> \h00, y |-> \h00, sp |-> \hFD, status |-> \h24],
      [a |-> \h80, x |-> \h01, y |-> \hFF, sp |-> \h00, status |-> \hE5],
      [a |-> \hFF, x |-> \hFF, y |-> \h01, sp |-> \hFF, status |-> \h67] }

\* the 4-byte PRG-ROM vector and the bus that hold bytes[1..3] at pc, pc+1, pc+2
\* (addresses wrap at 0xFFFF): bytes below 0x8000 are written to the bus,
\* bytes from 0x8000 on are cells of the PRG-ROM vector
At(pc, j) == wrapping_add16(pc, j)

PrgWith(pc, bytes) ==
    [i \in 1..4 |->
        IF \E j \in 0..2 : At(pc, j) >= \h8000 /\ (At(pc, j) - \h8000) % 4 = i - 1
        THEN bytes[(CHOOSE j \in 0..2 :
                      At(pc, j) >= \h8000 /\ (At(pc, j) - \h8000) % 4 = i - 1) + 1]
        ELSE \hEA]

BusWith(pc, bytes) ==
    LET m0 == Memory_new(PrgWith(pc, bytes))
        m1 == write(m0, At(pc, 0), bytes[1])
        m2 == write(m1, At(pc, 1), bytes[2])
    IN  write(m2, At(pc, 2), bytes[3])

\* Memory::new(vec![]) holding the instruction opcode, b1, 0x80 in RAM at
\* 0x0200: its absolute operand is an address of the empty PRG-ROM
EmptyBusWith(opcode, b1) ==
    write(write(write(Memory_new(<<>>), \h0200, opcode), \h0201, b1),
          \h0202, \h80)

InitStep ==
    /\ \/ \E pc \in StepPcs, opcode \in Opcodes, b1 \in Operands1,
             b2 \in Operands2, rf \in RegisterFiles :
             /\ prg0 = PrgWith(pc, <<opcode, b1, b2>>)
             /\ mem = BusWith(pc, <<opcode, b1, b2>>)
             /\ cpu = [a |-> rf.a, x |-> rf.x, y |-> rf.y, pc |-> pc,
                       sp |-> rf.sp, status |-> rf.status]
       \/ \E opcode \in Opcodes, b1 \in Operands1, rf \in RegisterFiles :
             /\ prg0 = <<>>
             /\ mem = EmptyBusWith(opcode, b1)
             /\ cpu = [a |-> rf.a, x |-> rf.x, y |-> rf.y, pc |-> \h0200,
                       sp |-> rf.sp, status |-> rf.status]
    /\ overflow_checks \in BOOLEAN
    /\ panicked = FALSE
    /\ last = NoOp
    /\ pre = [cpu |-> cpu, mem |-> mem]
    /\ budget = 0
    /\ fuel = MaxStepOps
    /\ cpu0 = cpu
    /\ rom_file = <<>>
    /\ rom_data = NotParsed

NextStep == Step

SpecStep == InitStep /\ [][NextStep]_vars

-----------------------------------------------------------------------------
(* The bus over full-size cartridges: a 16 KiB and a 32 KiB PRG-ROM image,  *)
(* and the short vectors, read at every address of 0x8000-0xFFFF.           *)

FullImages == { Image(16384, 7), Image(32768, 7) }

ShortImages == { Image(n, 101) : n \in 1..MaxPrgLen }

PrgAddrs == { \h8000, \h8001, \hBFFC, \hBFFF, \hC000, \hFFFC, \hFFFD, \hFFFF }

PrgVals == { \h00, \hA5 }

InitPrg ==
    /\ prg0 \in FullImages \cup ShortImages
    /\ mem = Memory_new(prg0)
    /\ cpu = Cpu_new
    /\ overflow_checks = TRUE
    /\ panicked = FALSE
    /\ last = NoOp
    /\ pre = [cpu |-> Cpu_new, mem |-> Memory_new(prg0)]
    /\ budget = MaxPrgOps
    /\ fuel = 0
    /\ cpu0 = cpu
    /\ rom_file = <<>>
    /\ rom_data = NotParsed

NextPrg ==
    \/ \E a \in PrgAddrs, v \in PrgVals : BusWrite(a, v)
    \/ \E a \in PrgAddrs : BusRead(a)
    \/ \E a \in {\hBFFC, \hFFFC} : BusReadU16(a)
    \/ BusReset
    \/ \E new_prg \in LoadImages : BusLoadPrg(new_prg)

SpecPrg == InitPrg /\ [][NextPrg]_vars


-----------------------------------------------------------------------------
(* Short instruction sequences from drawn register, flag and operand       *)
(* values: the program is the start of a 32-byte cartridge, the CPU starts *)
(* at 0x8000 with SP = 0xFD, and cpu0 keeps the registers it started with. *)

MaxOpSteps == 3

\* the second operand M of the arithmetic and compare instructions
OperandVals ==
    { \h00, \h01, \h0F, \h10, \h3F, \h40, \h50, \h7F,
      \h80, \h81, \h90, \hB0, \hC0, \hF0, \hFE, \hFF }

\* P without the carry: I and U; I, U and D; N, V, U, I and Z
FlagBases == { \h24, \h2C, \hE6 }

\* P before a pull of the status, all four values of bits 4 and 5 included
PriorStatuses ==
    { \h00, \h10, \h20, \h30, \h24, \h34, \h65, \hA5, \hCF, \hDF, \hEF, \hFF }

\* the instruction that makes the carry v: SEC for 1, CLC for 0
SetCarryTo(v) == IF v = 1 THEN \h38 ELSE \h18

\* ADC #m; carry := 1 - c; SBC #m   and   SBC #m; carry := 1 - c; ADC #m
\* ROL A; ROR A   ROR A; ROL A   ASL A; LSR A   LSR A; ASL A
ArithPrograms(m, c) ==
    { <<\h69, m, SetCarryTo(1 - c), \hE9, m>>,
      <<\hE9, m, SetCarryTo(1 - c), \h69, m>> }

ShiftPrograms == { <<\h2A, \h6A>>, <<\h6A, \h2A>>, <<\h0A, \h4A>>, <<\h4A, \h0A>> }

\* CMP #m, CPX #m, CPY #m
ComparePrograms(m) == { <<\hC9, m>>, <<\hE0, m>>, <<\hC0, m>> }

\* PLP and RTI
PullPrograms == { <<\h28>>, <<\h40>> }

\* the registers at the start: r is the drawn register value, in A for the
\* arithmetic and shift programs and in the compared register otherwise
StartRegs(code, r, status) ==
    [pc |-> \h8000, sp |-> \hFD, status |-> status,
     a |-> IF code[1] \in {\hE0, \hC0} THEN \h3C ELSE r,
     x |-> IF code[1] = \hE0 THEN r ELSE \h11,
     y |-> IF code[1] = \hC0 THEN r ELSE \hEE]

InitOps ==
    /\ \E r \in Byte :
          \/ \E m \in OperandVals, c \in {0, 1}, f \in {\h24, \h2C} :
             \E code \in ArithPrograms(m, c) :
                /\ prg0 = Cartridge(code)
                /\ cpu = StartRegs(code, r, f + c)
                /\ mem = Memory_new(prg0)
          \/ \E c \in {0, 1}, f \in FlagBases, code \in ShiftPrograms :
                /\ prg0 = Cartridge(code)
                /\ cpu = StartRegs(code, r, f + c)
                /\ mem = Memory_new(prg0)
          \/ \E m \in OperandVals, p \in {\h24, \hEB} :
             \E code \in ComparePrograms(m) :
                /\ prg0 = Cartridge(code)
                /\ cpu = StartRegs(code, r, p)
                /\ mem = Memory_new(prg0)
          \/ \E p \in PriorStatuses, code \in PullPrograms :
                /\ prg0 = Cartridge(code)
                /\ cpu = StartRegs(code, \h77, p)
                /\ mem = write(write(write(Memory_new(prg0), \h01FE, r),
                                     \h01FF, \h10), \h0100, \h80)
    /\ overflow_checks \in BOOLEAN
    /\ panicked = FALSE
    /\ last = NoOp
    /\ pre = [cpu |-> cpu, mem |-> mem]
    /\ budget = 0
    /\ fuel = MaxOpSteps
    /\ cpu0 = cpu
    /\ rom_file = <<>>
    /\ rom_data = NotParsed

NextOps == Step

SpecOps == InitOps /\ [][NextOps]_vars

-----------------------------------------------------------------------------
(* Stack and control-flow sequences: BRK with an RTI or a PLA; RTS handler,  *)
(* JSR with an RTS, PHA and PHP with their pulls, from every stack pointer, *)
(* and JMP (indirect) through pointers in RAM and in PRG-ROM.  The          *)
(* sequences start from drawn registers: the status is the power-on value   *)
(* or one with other flags, and, for the laws that speak of bits 4 and 5 of *)
(* P, a byte with those bits in their other settings, which a caller can    *)
(* store in the field but a run from Cpu::new() does not produce (SpecRun). *)

MaxFlowSteps == 3

\* program bytes at 0x8000 and handler bytes at 0x8010, where the IRQ/BRK
\* vector of Cartridge points
FlowCartridge(code, handler) ==
    [i \in 1..32 |->
        IF i > 16 /\ i <= 16 + Len(handler) THEN handler[i - 16]
        ELSE Cartridge(code)[i]]

\* BRK; handler RTI            NOP; BRK; handler RTI
\* BRK; handler PLA; RTS       JSR $8010; subroutine RTS
\* NOP; JSR $8010; RTS         PHA; LDA #$33; PLA
\* PHP; PLP                    PHP; SEC; PLP
StackPrograms ==
    { FlowCartridge(<<\h00>>, <<\h40>>),
      FlowCartridge(<<\hEA, \h00>>, <<\h40>>),
      FlowCartridge(<<\h00>>, <<\h68, \h60>>),
      FlowCartridge(<<\h20, \h10, \h80>>, <<\h60>>),
      FlowCartridge(<<\hEA, \h20, \h10, \h80>>, <<\h60>>),
      FlowCartridge(<<\h48, \hA9, \h33, \h68>>, <<>>),
      FlowCartridge(<<\h08, \h28>>, <<>>),
      FlowCartridge(<<\h08, \h38, \h28>>, <<>>) }

\* an image whose last three cells, read at 0xFFFD..0xFFFF, are the bytes
\* last3, with handler bytes at 0x8010
TopImage(last3, handler) ==
    [i \in 1..32 |->
        IF i >= 30 THEN last3[i - 29] ELSE FlowCartridge(<<>>, handler)[i]]

\* JSR $8010 fetched at 0xFFFD with an RTS at 0x8010, so that the return
\* address wraps; BRK fetched at 0xFFFF, whose own byte is the high byte of
\* the IRQ/BRK vector 0x0010
JsrAtTop == TopImage(<<\h20, \h10, \h80>>, <<\h60>>)
BrkAtTop == TopImage(<<\h80, \h10, \h00>>, <<>>)

\* a program and the address the CPU starts it at
StackStarts ==
    { [prg |-> code, pc |-> \h8000] : code \in StackPrograms }
        \cup { [prg |-> JsrAtTop, pc |-> \hFFFD], [prg |-> BrkAtTop, pc |-> \hFFFF] }

\* power-on; every flag but B; nothing, U clear; B set and U clear
FlowStatuses == { \h24, \hEF, \h00, \hDB }

FlowAccs == { \h00, \hA5 }

\* pointers of JMP (indirect): inside a page, at the end of a page, in page
\* zero, at the end of RAM, in PRG-ROM and at the end of the address space
JmpPointers == { \h0200, \h02FF, \h0010, \h00FF, \h07FF, \h8003, \h80FF, \hFFFF }

JmpBytes == { \h80, \h90, \hAA }

\* the bus with v1 at q, v2 at q + 1 and v3 at the start of q's page
\* (a write to PRG-ROM changes nothing)
PointerCells(m, q, v1, v2, v3) ==
    write(write(write(m, BitAnd(q, \hFF00), v3), wrapping_add16(q, 1), v2), q, v1)

InitFlow ==
    /\ \/ \E sp \in Byte, p \in FlowStatuses, a \in FlowAccs, start \in StackStarts :
             /\ prg0 = start.prg
             /\ cpu = [pc |-> start.pc, sp |-> sp, status |-> p,
                       a |-> a, x |-> \h11, y |-> \hEE]
             /\ mem = Memory_new(prg0)
       \/ \E q \in JmpPointers, v1 \in JmpBytes, v2 \in JmpBytes, v3 \in JmpBytes :
             /\ prg0 = FlowCartridge(<<\h6C, q % 256, q \div 256>>, <<>>)
             /\ cpu = [pc |-> \h8000, sp |-> \hFD, status |-> \h24,
                       a |-> \h00, x |-> \h11, y |-> \hEE]
             /\ mem = PointerCells(Memory_new(prg0), q, v1, v2, v3)
    /\ overflow_checks \in BOOLEAN
    /\ panicked = FALSE
    /\ last = NoOp
    /\ pre = [cpu |-> cpu, mem |-> mem]
    /\ budget = 0
    /\ fuel = MaxFlowSteps
    /\ cpu0 = cpu
    /\ rom_file = <<>>
    /\ rom_data = NotParsed

NextFlow == Step

SpecFlow == InitFlow /\ [][NextFlow]_vars

-----------------------------------------------------------------------------
(* Rom (rom.rs) and the start of main.rs: the file is parsed, its PRG-ROM   *)
(* becomes the cartridge of a new Memory, a new Cpu is reset and stepped.   *)
(* The file, a Vec<u8>, is a sequence; rom[a..b] of the code is            *)
(* SubSeq(rom, a + 1, b) and panics when b exceeds the length.              *)

MaxRomSteps == 2

\* b"NES\x1A"
NesMagic == <<\h4E, \h45, \h53, \h1A>>

check_magic(magic_bytes) == magic_bytes = NesMagic

\* Err(..), returned by the two checks at the top of parse
RomErr == [kind |-> "err", prg_rom |-> <<>>, chr_rom |-> <<>>]

\* a slice index out of range, or prg_rom.len() - 4 below zero: the
\* subtraction panics in a build with overflow checks, and in a build
\* without it wraps to an index no vector has, so the indexing panics
RomPanic == [kind |-> "panic", prg_rom |-> <<>>, chr_rom |-> <<>>]

Rom_parse(rom) ==
    IF Len(rom) < 16 THEN RomErr
    ELSE IF ~check_magic(SubSeq(rom, 1, 4)) THEN RomErr
    ELSE
        LET prg_rom_size == rom[5] * 16 * 1024
            chr_rom_size == rom[6] * 8 * 1024
            flags6       == rom[7]
            has_trainer  == BitAnd(flags6, 4) # 0
            offset1      == IF has_trainer THEN 16 + 512 ELSE 16
            offset2      == offset1 + prg_rom_size
            prg_rom_start == 16
            chr_rom_start == prg_rom_start + prg_rom_size
        IN  IF offset2 > Len(rom) THEN RomPanic
            ELSE IF offset2 + chr_rom_size > Len(rom) THEN RomPanic
            ELSE IF prg_rom_size < 4 THEN RomPanic
            ELSE [kind    |-> "ok",
                  prg_rom |-> SubSeq(rom, prg_rom_start + 1, chr_rom_start),
                  chr_rom |-> SubSeq(rom, chr_rom_start + 1,
                                     chr_rom_start + chr_rom_size)]

\* the 16-byte header: magic, PRG-ROM units, CHR-ROM units, flags 6, flags 7
\* and eight bytes of padding
Header(magic, prg_units, chr_units, flags6) ==
    magic \o <<prg_units, chr_units, flags6, \h00>>
          \o <<0, 0, 0, 0, 0, 0, 0, 0>>

\* bytes a well-formed file has after the header: the trainer when flags 6
\* announces one, the PRG-ROM and the CHR-ROM
BodyLen(prg_units, chr_units, flags6) ==
    (IF BitAnd(flags6, 4) # 0 THEN 512 ELSE 0)
        + (prg_units * 16 * 1024) + (chr_units * 8 * 1024)

\* horizontal mirroring, trainer, mapper 1 without and mapper 15 with a trainer
Flags6Vals == { \h00, \h04, \h10, \hF4 }

\* a file whose body is d bytes longer (shorter, for d < 0) than well-formed
RomFile(magic, p, c, f, k, d) ==
    LET n == BodyLen(p, c, f) + d
    IN  Header(magic, p, c, f) \o Image(IF n < 0 THEN 0 ELSE n, k)

\* well-formed files, files cut one byte short and files with sixteen
\* bytes more, with a good and a bad magic; the magic alone; no bytes
RomFiles(seeds) ==
    { RomFile(magic, p, c, f, k, d) :
        magic \in { NesMagic, <<\h4E, \h45, \h53, \h00>> },
        p \in {0, 1, 2}, c \in {0, 1}, f \in Flags6Vals, k \in seeds,
        d \in {-1, 0, 16} }
        \cup { NesMagic, <<>> }

\* the first byte of the two bodies a header is given
BodySeeds == { 7, 101 }

InitRom ==
    /\ rom_file \in RomFiles(BodySeeds)
    /\ rom_data = NotParsed
    /\ prg0 = <<>>
    /\ mem = Memory_new(prg0)
    /\ cpu = Cpu_new
    /\ overflow_checks \in BOOLEAN
    /\ panicked = FALSE
    /\ last = NoOp
    /\ pre = [cpu |-> cpu, mem |-> mem]
    /\ budget = 1
    /\ fuel = MaxRomSteps
    /\ cpu0 = cpu

\* main.rs 15-21: Rom::parse(rom_file)?, Memory::new(rom_data.prg_rom),
\* Cpu::new(); an Err ends main and a panic aborts it
Load ==
    /\ rom_data.kind = "none"
    /\ rom_data' = Rom_parse(rom_file)
    /\ panicked' = (rom_data'.kind = "panic")
    /\ prg0' = rom_data'.prg_rom
    /\ IF rom_data'.kind = "ok"
       THEN mem' = Memory_new(rom_data'.prg_rom) /\ cpu' = Cpu_new
       ELSE UNCHANGED <<mem, cpu>>
    /\ last' = [op |-> "load", addr |-> 0, val |-> 0]
    /\ pre' = Snapshot
    /\ UNCHANGED <<overflow_checks, budget, fuel, cpu0, rom_file>>

\* main.rs 22-35: the reset, then the steps
NextRom ==
    \/ Load
    \/ rom_data.kind = "ok" /\ CpuReset
    \/ rom_data.kind = "ok" /\ budget = 0 /\ Step

SpecRom == InitRom /\ [][NextRom]_vars

-----------------------------------------------------------------------------
(* Zero-page addressing: one load or store in a zero-page indexed or an     *)
(* indirect mode, run at 0x8000 over a RAM whose pages zero and one are     *)
(* filled, from drawn operand bytes and index registers.                    *)

MaxZpSteps == 1

\* the byte of RAM cell a before the run: page zero holds pointer bytes 0..7
\* (pointers into RAM), 0xFF at 0x0000 and 0xF0 at 0x00FF (a pointer just
\* under the top of the address space); page one holds bytes from 0x40 on,
\* so that a byte fetched from page one is never the byte page zero has at
\* the same offset
PageFill(a) ==
    IF a = \h0000 THEN \hFF
    ELSE IF a = \h00FF THEN \hF0
    ELSE IF a < \h0100 THEN (a * 5 + 3) % 8
    ELSE \h40 + ((a * 3 + 1) % 8)

\* Memory::new(prg) followed by memory.write(a, PageFill(a)) for the cells of
\* pages zero and one
FilledBus(prg) ==
    [Memory_new(prg) EXCEPT
        !.cpu_ram = [a \in { b \in 0..511 : PageFill(b) # 0 } |-> PageFill(a)]]

\* LDA d,X  STA d,X  LDX d,Y  STX d,Y  LDA (d,X)  STA (d,X)  LDA (d),Y
\* STA (d),Y  INC d,X
ZpOpcodes == { \hB5, \h95, \hB6, \h96, \hA1, \h81, \hB1, \h91, \hF6 }

ZpOperands == { \h00, \h01, \h7F, \h80, \hFE, \hFF }

ZpIndexes == { \h00, \h01, \h02, \h20, \h80, \hFF }

InitZp ==
    /\ \E opcode \in ZpOpcodes, d \in ZpOperands, x \in ZpIndexes, y \in ZpIndexes :
          /\ prg0 = Cartridge(<<opcode, d>>)
          /\ cpu = [pc |-> \h8000, sp |-> \hFD, status |-> \h24,
                    a |-> \hC3, x |-> x, y |-> y]
    /\ mem = FilledBus(prg0)
    /\ overflow_checks \in BOOLEAN
    /\ panicked = FALSE
    /\ last = NoOp
    /\ pre = [cpu |-> cpu, mem |-> mem]
    /\ budget = 0
    /\ fuel = MaxZpSteps
    /\ cpu0 = cpu
    /\ rom_file = <<>>
    /\ rom_data = NotParsed

NextZp == Step

SpecZp == InitZp /\ [][NextZp]_vars

-----------------------------------------------------------------------------
(* SpecMem: one instruction with a memory operand, INC, DEC, ASL, LSR, ROL,  *)
(* ROR or BIT, at 0x8000, on a bus whose operand cell holds a chosen byte.   *)

MaxMemSteps == 1

\* ASL LSR ROL ROR DEC INC in zero page, zero page,X, absolute, absolute,X
RmwOpcodes ==
    { \h06, \h16, \h0E, \h1E,   \h46, \h56, \h4E, \h5E,
      \h26, \h36, \h2E, \h3E,   \h66, \h76, \h6E, \h7E,
      \hC6, \hD6, \hCE, \hDE,   \hE6, \hF6, \hEE, \hFE }

\* BIT in zero page and absolute
BitOpcodes == { \h24, \h2C }

\* operand words: RAM, the top of RAM, a PPU register, the OAM-DMA byte,
\* the two ends of cartridge RAM
MemOperands == { \h0010, \h00FF, \h07FF, \h2001, \h4014, \h6000, \h7FFF }

MemVals == { \h00, \h01, \h02, \h40, \h7F, \h80, \hC1, \hFF }

MemStatuses == { \h24, \h25, \hA6, \hE7 }

MemAccs == { \h00, \h01, \hC3 }

MemIndexes == { \h00, \h01 }

\* the effective address of opcode op with operand bytes lo, hi and index x:
\* bits 2..4 of the opcode select zero page (001), absolute (011),
\* zero page,X (101) or absolute,X (111)
MemTarget(op, lo, hi, x) ==
    LET sel == (op \div 4) % 8
    IN  CASE sel = 1 -> lo
          [] sel = 3 -> lo + (256 * hi)
          [] sel = 5 -> (lo + x) % 256
          [] sel = 7 -> (lo + (256 * hi) + x) % 65536

InitMem ==
    /\ \E opcode \in RmwOpcodes \cup BitOpcodes, w \in MemOperands,
          v \in MemVals, x \in MemIndexes, a \in MemAccs, p \in MemStatuses :
          /\ prg0 = Cartridge(<<opcode, w % 256, w \div 256>>)
          /\ cpu = [pc |-> \h8000, sp |-> \hFD, status |-> p,
                    a |-> a, x |-> x, y |-> \h00]
          /\ mem = write(Memory_new(prg0),
                         MemTarget(opcode, w % 256, w \div 256, x), v)
    /\ overflow_checks \in BOOLEAN
    /\ panicked = FALSE
    /\ last = NoOp
    /\ pre = [cpu |-> cpu, mem |-> mem]
    /\ budget = 0
    /\ fuel = MaxMemSteps
    /\ cpu0 = cpu
    /\ rom_file = <<>>
    /\ rom_data = NotParsed

NextMem == Step

SpecMem == InitMem /\ [][NextMem]_vars

-----------------------------------------------------------------------------
(* SpecRun: the run of main.rs: Cpu::new(), cpu.reset(), then steps, on a    *)
(* cartridge whose program is a short prefix followed by any instruction.    *)

MaxRunSteps == 4

\* nothing; LDA #$FF, PHA; PHP
RunPrefixes == { <<>>, <<\hA9, \hFF, \h48>>, <<\h08>> }

RunOperands1 == { \h00, \hFF }
RunOperands2 == { \h00, \h01 }

InitRun ==
    /\ \E prefix \in RunPrefixes, opcode \in Opcodes,
          b1 \in RunOperands1, b2 \in RunOperands2 :
          prg0 = Cartridge(prefix \o <<opcode, b1, b2>>)
    /\ mem = Memory_new(prg0)
    /\ cpu = Cpu_new
    /\ overflow_checks \in BOOLEAN
    /\ panicked = FALSE
    /\ last = NoOp
    /\ pre = [cpu |-> cpu, mem |-> mem]
    /\ budget = 1
    /\ fuel = MaxRunSteps
    /\ cpu0 = cpu
    /\ rom_file = <<>>
    /\ rom_data = NotParsed

NextRun ==
    \/ CpuReset
    \/ (budget = 0 /\ Step)

SpecRun == InitRun /\ [][NextRun]_vars

-----------------------------------------------------------------------------
(* Properties of the bus and of the step                                    *)

\* C1 (SpecStep): exec_next_instr is total: from every CPU state, for every
\* opcode byte at PC, the step returns without a panic, also when the opcode
\* is fetched at 0xFFFD, 0xFFFE or 0xFFFF and PC wraps.
StepIsTotal == last.op = "step" => ~panicked

\* the addresses C2 calls read/write
Writable(a) ==
    a \in \h0000..\h1FFF \/ a \in \h2000..\h3FFF \/ a \in \h4000..\h4015
        \/ a \in \h6000..\h7FFF

\* C2 (SpecBus): for every address a of internal RAM, the PPU window, the
\* APU/IO ports 0x4000-0x4015 or cartridge RAM and every byte v, write(a, v)
\* followed by read(a) returns v.
WriteThenRead ==
    (last.op = "write" /\ Writable(last.addr)) => read(mem, last.addr) = last.val

\* a non-zero byte written to the last APU/IO port and read back
WriteThenReadSeen ==
    /\ last = [op |-> "write", addr |-> \h4015, val |-> 255]
    /\ read(pre.mem, \h4015) = 1
    /\ read(mem, \h4015) = 255

\* C3 (SpecBus): the controller ports 0x4016 and 0x4017 are read/write:
\* write(a, v) followed by read(a) returns v.
ControllerPortsReadBack ==
    (last.op = "write" /\ last.addr \in {\h4016, \h4017})
        => read(mem, last.addr) = last.val

\* the PRG-ROM addresses read after every operation of a cartridge run: the
\* 32 cells of the image, both ends of both halves, and the vectors
RomProbes ==
    (\h8000..\h801F) \cup {\hBFFF, \hC000} \cup (\hFFFA..\hFFFF)

\* C4 (Spec): PRG-ROM is immutable: after any sequence of bus writes, bus
\* resets and CPU steps, every read in 0x8000-0xFFFF returns the byte it
\* returned right after construction, and a write to 0x8000-0xFFFF changes
\* nothing any read returns.
PrgRomImmutable ==
    /\ \A a \in RomProbes : read(mem, a) = read(Memory_new(prg0), a)
    /\ (last.op = "write" /\ last.addr \in \h8000..\hFFFF) => mem = pre.mem

\* the driver wrote 0x77 over the reset vector's low byte after the program
\* stored A to 0x8000, and both cells read as the cartridge has them
PrgRomImmutableSeen ==
    /\ last = [op |-> "write", addr |-> \hFFFC, val |-> \h77]
    /\ prg0 = ProgramA
    /\ cpu.pc = \h800B
    /\ read(mem, \hFFFC) = \h00
    /\ read(mem, \h8000) = \hA9

\* the internal-RAM cells compared across the four mirrors: both ends of
\* the 2 KiB, the zero page, the stack page, and the cells the programs and
\* the driver write
RamProbes ==
    {\h0000, \h0001, \h00FF, \h0100, \h01FC, \h01FD, \h01FF, \h0200, \h07FE, \h07FF}

\* C5 (Spec): internal RAM is mirrored every 0x0800 bytes: after any
\* sequence of writes and CPU steps read(a) = read(a + 0x0800) =
\* read(a + 0x1000) = read(a + 0x1800), and a write through one mirror is
\* read through all four.
RamMirrored ==
    /\ \A a \in RamProbes : \A k \in 1..3 :
          read(mem, a) = read(mem, a + k * \h0800)
    /\ (last.op = "write" /\ last.addr \in \h0000..\h1FFF) =>
          \A k \in 0..3 : read(mem, (last.addr % \h0800) + k * \h0800) = last.val

\* the driver wrote through the fourth mirror of cell 1 after the program
\* wrote it through the second, and cell 1 itself reads the driver's byte
RamMirroredSeen ==
    /\ last = [op |-> "write", addr |-> \h1801, val |-> \h77]
    /\ read(pre.mem, \h0801) = \h5A
    /\ read(mem, \h0001) = \h77

\* C6 (Spec): the PPU register window is mirrored every 8 bytes across
\* 0x2000-0x3FFF: read(0x2000 + k) = read(0x2000 + k + 8n) in every
\* reachable state, and a write to a mirror of register k is read at every
\* other mirror of k.
PpuMirrored ==
    /\ \A k \in 0..7 : \A n \in {1, 2, 511, 1022, 1023} :
          read(mem, \h2000 + k) = read(mem, \h2000 + k + 8 * n)
    /\ (last.op = "write" /\ last.addr \in \h2000..\h3FFF) =>
          \A n \in {0, 1, 2, 511, 1022, 1023} :
              read(mem, \h2000 + (last.addr % 8) + 8 * n) = last.val

\* the driver wrote register 2 through its last mirror after the program
\* wrote it through its second, and 0x2002 reads the driver's byte
PpuMirroredSeen ==
    /\ last = [op |-> "write", addr |-> \h3FFA, val |-> \h77]
    /\ read(pre.mem, \h2002) = \h5A
    /\ read(mem, \h2002) = \h77

\* C7 (SpecPrg): on a bus built from a PRG-ROM vector prg of non-zero
\* length L, read(a) = prg[(a - 0x8000) mod L] for every a in
\* 0x8000-0xFFFF; with L = 16 KiB read(a) = read(a + 0x4000) for every a in
\* 0x8000-0xBFFF and the reset vector is prg[0x3FFC], prg[0x3FFD].
PrgRomMirrored ==
    /\ Len(prg0) > 0 =>
          \A a \in \h8000..\hFFFF :
              read(mem, a) = prg0[((a - \h8000) % Len(prg0)) + 1]
    /\ Len(prg0) = 16384 =>
          /\ \A a \in \h8000..\hBFFF : read(mem, a) = read(mem, a + \h4000)
          /\ read_u16(mem, \hFFFC) = prg0[\h3FFC + 1] + 256 * prg0[\h3FFD + 1]
    /\ (last.op = "read" /\ ~panicked) =>
          last.val = prg0[((last.addr - \h8000) % Len(prg0)) + 1]

\* the reset vector of a 16 KiB cartridge was read as a word
PrgRomMirroredSeen ==
    /\ Len(prg0) = 16384
    /\ last.op = "read_u16" /\ last.addr = \hFFFC
    /\ last.val = prg0[\h3FFC + 1] + 256 * prg0[\h3FFD + 1]

\* C8 (SpecBus): bus read and write are total: on a bus built by
\* Memory::new from a vector of any length, the empty one included, read
\* returns a byte and write returns, at every address.
BusIsTotal == ~panicked

\* the unmapped addresses read after every operation: both ends of
\* 0x4018-0x5FFF and the cells around the middle
UnmappedProbes == {\h4018, \h4019, \h401F, \h4020, \h4FFF, \h5000, \h5FFE, \h5FFF}

\* C9 (Spec): every address of 0x4018-0x5FFF reads 0 in every reachable
\* state, and a write to such an address changes nothing any read returns.
UnmappedReadsZero ==
    /\ \A a \in UnmappedProbes : read(mem, a) = 0
    /\ (last.op = "write" /\ last.addr \in \h4018..\h5FFF) => mem = pre.mem

\* the driver wrote 0x77 to the last unmapped address on a bus the program
\* had written to, and the address reads 0
UnmappedReadsZeroSeen ==
    /\ last = [op |-> "write", addr |-> \h5FFF, val |-> \h77]
    /\ read(mem, \h0801) = \h5A
    /\ read(mem, \h5FFF) = 0
    /\ read(mem, \h6000) = 0

\* C10 (SpecBus): read_u16(addr) = read(addr) + 256 * read((addr + 1) mod
\* 65536): read_u16(0xFFFF) takes its high byte from 0x0000, and
\* read_u16(0x02FF) takes its high byte from 0x0300, with no page-boundary
\* special case.
ReadU16LittleEndian ==
    (last.op = "read_u16" /\ ~panicked) =>
        last.val = read(mem, last.addr) + 256 * read(mem, (last.addr + 1) % 65536)

\* read_u16(0xFFFF) after a write of 0xFF to 0x0000, on a cartridge whose
\* byte at 0xFFFF is not 0
ReadU16LittleEndianSeen ==
    /\ last.op = "read_u16" /\ last.addr = \hFFFF
    /\ read(mem, \h0000) = 255
    /\ read(mem, \hFFFF) \in 1..254
    /\ last.val = 255 * 256 + read(mem, \hFFFF)


\* the addresses below 0x8000 read after a bus reset: every address the
\* driver writes, and further mirrors of the RAM and PPU cells it writes
ResetProbes ==
    {a \in BusAddrs : a < \h8000}
        \cup {\h1000, \h17FF, \h1B00, \h2010, \h3FF8, \h2FFF, \h4001, \h6001}

\* C11 (SpecBus): after the bus reset(), read(a) = 0 for every address a
\* below 0x8000, whatever was written before, and every read in
\* 0x8000-0xFFFF returns what it returned before the reset.
ResetClearsBus ==
    last.op = "reset" =>
        /\ \A a \in ResetProbes : read(mem, a) = 0
        /\ \A a \in {b \in BusAddrs : b >= \h8000} : read(mem, a) = read(pre.mem, a)

\* a reset of a bus whose cartridge RAM held 0xFF in its last cell, over a
\* non-empty PRG-ROM
ResetClearsBusSeen ==
    /\ last.op = "reset"
    /\ read(pre.mem, \h7FFF) = 255
    /\ read(mem, \h7FFF) = 0
    /\ read(mem, \hFFFF) \in 1..255


\* C12 (Spec): Cpu::reset sets PC to read(0xFFFC) + 256 * read(0xFFFD) and
\* leaves SP, A, X, Y, P and the bus unchanged, from any CPU state; on a CPU
\* fresh from Cpu::new() the result is SP = 0xFD, A = X = Y = 0, P = 0x24.
ResetLoadsVector ==
    last.op = "cpu_reset" =>
        /\ cpu.pc = read(mem, \hFFFC) + 256 * read(mem, \hFFFD)
        /\ cpu.sp = pre.cpu.sp /\ cpu.a = pre.cpu.a /\ cpu.x = pre.cpu.x
        /\ cpu.y = pre.cpu.y /\ cpu.status = pre.cpu.status
        /\ mem = pre.mem
        /\ pre.cpu = Cpu_new =>
              /\ cpu.sp = \hFD /\ cpu.a = 0 /\ cpu.x = 0 /\ cpu.y = 0
              /\ cpu.status = \h24

\* a reset of a CPU that had loaded A and pushed it, away from the vector
ResetLoadsVectorSeen ==
    /\ last.op = "cpu_reset"
    /\ pre.cpu.a = \h5A /\ pre.cpu.sp = \hFC /\ pre.cpu.pc = \h800F
    /\ cpu.a = \h5A /\ cpu.sp = \hFC /\ cpu.pc = \h8000


\* the opcode bytes no arm of the match names: they take the default arm
Unimplemented ==
    { \h02, \h03, \h07, \h0B, \h0F, \h12, \h13, \h17, \h1B, \h1F,
      \h22, \h23, \h27, \h2B, \h2F, \h32, \h33, \h37, \h3B, \h3F,
      \h42, \h43, \h47, \h4B, \h4F, \h52, \h53, \h57, \h5B, \h5F,
      \h62, \h63, \h67, \h6B, \h6F, \h72, \h73, \h77, \h7B, \h7F,
      \h83, \h87, \h8B, \h8F, \h92, \h93, \h97, \h9B, \h9C, \h9E,
      \h9F, \hA3, \hA7, \hAB, \hAF, \hB2, \hB3, \hB7, \hBB, \hBF,
      \hC3, \hC7, \hCB, \hCF, \hD2, \hD3, \hD7, \hDB, \hDF, \hE3,
      \hE7, \hEB, \hEF, \hF2, \hF3, \hF7, \hFB, \hFF }

\* C13 (SpecStep): a step that fetches an opcode with no match arm is not a
\* failure: it returns, PC has advanced by exactly one (mod 65536), and SP,
\* A, X, Y, P and every bus cell are as before the step.
UnknownOpcodeSkipped ==
    (last.op = "step" /\ last.val \in Unimplemented) =>
        /\ ~panicked
        /\ cpu = [pre.cpu EXCEPT !.pc = (pre.cpu.pc + 1) % 65536]
        /\ mem = pre.mem


\* bit k of a byte or of a 9-bit sum, and a flag of P, by arithmetic
BitOf(v, k) == (v \div (2 ^ k)) % 2

FlagC(status) == BitOf(status, 0)
FlagZ(status) == BitOf(status, 1)
FlagI(status) == BitOf(status, 2)
FlagD(status) == BitOf(status, 3)
FlagV(status) == BitOf(status, 6)
FlagN(status) == BitOf(status, 7)

\* the step just taken executed the first instruction of the program, and
\* its opcode was op
FirstStepWas(op) ==
    last.op = "step" /\ last.addr = \h8000 /\ last.val = op /\ pre.cpu = cpu0

\* C14 (SpecOps): ADC, for every A, M and carry-in C, with S = A + M + C:
\* A = S mod 256, C = 1 iff S >= 0x100, Z = 1 iff S mod 256 = 0, N = bit 7
\* of S, V = 1 iff A and M both differ from S in bit 7, whatever the D
\* flag; 0x50 + 0x50 with C = 0 gives A = 0xA0, N = 1, V = 1, C = 0.
AdcLaw ==
    FirstStepWas(\h69) =>
        LET A == cpu0.a
            M == prg0[2]
            S == A + M + FlagC(cpu0.status)
        IN  /\ cpu.a = S % 256
            /\ FlagC(cpu.status) = 1 <=> S >= 256
            /\ FlagZ(cpu.status) = 1 <=> S % 256 = 0
            /\ FlagN(cpu.status) = BitOf(S, 7)
            /\ FlagV(cpu.status) = 1 <=>
                  (BitOf(A, 7) # BitOf(S, 7) /\ BitOf(M, 7) # BitOf(S, 7))
            /\ (A = \h50 /\ M = \h50 /\ FlagC(cpu0.status) = 0) =>
                  /\ cpu.a = \hA0 /\ FlagN(cpu.status) = 1
                  /\ FlagV(cpu.status) = 1 /\ FlagC(cpu.status) = 0

\* 0x50 + 0x50 with the carry clear and the D flag set
AdcLawSeen ==
    /\ FirstStepWas(\h69)
    /\ cpu0.a = \h50 /\ prg0[2] = \h50 /\ cpu0.status = \h2C
    /\ cpu.a = \hA0 /\ cpu.status = \hEC


\* C15 (SpecOps): SBC is ADC of the complement: for every A, M and carry-in
\* C, SBC with operand M leaves the same A and the same C, V, Z, N as ADC
\* with operand M xor 0xFF from the same state; C is set iff no borrow
\* occurred, that is iff A + (M xor 0xFF) + C >= 0x100.
SbcIsAdcOfComplement ==
    FirstStepWas(\hE9) =>
        LET M == prg0[2]
            r == exec_next_instr(cpu0, Memory_new(Cartridge(<<\h69, 255 - M>>)),
                                 overflow_checks)
        IN  /\ ~r.panic
            /\ cpu.a = r.cpu.a
            /\ FlagC(cpu.status) = FlagC(r.cpu.status)
            /\ FlagV(cpu.status) = FlagV(r.cpu.status)
            /\ FlagZ(cpu.status) = FlagZ(r.cpu.status)
            /\ FlagN(cpu.status) = FlagN(r.cpu.status)
            /\ FlagC(cpu.status) = 1 <=>
                  cpu0.a + (255 - M) + FlagC(cpu0.status) >= 256

\* 0x50 - 0xB0 with the carry set: a borrow and a signed overflow
SbcIsAdcOfComplementSeen ==
    /\ FirstStepWas(\hE9)
    /\ cpu0.a = \h50 /\ prg0[2] = \hB0 /\ FlagC(cpu0.status) = 1
    /\ cpu.a = \hA0
    /\ FlagC(cpu.status) = 0 /\ FlagV(cpu.status) = 1 /\ FlagN(cpu.status) = 1


\* the step just taken executed the third instruction of an arithmetic
\* program that began with opcode first, its opcode was op, and the carry
\* before it was 1 - c, c being the carry the program started with
ThirdStepWas(first, op) ==
    /\ last.op = "step" /\ last.addr = \h8003 /\ last.val = op
    /\ prg0[1] = first
    /\ FlagC(pre.cpu.status) = 1 - FlagC(cpu0.status)

\* C16 (SpecOps): ADC and SBC are mutually inverse on A: from A = x and
\* carry c, ADC M and then SBC M with the carry set to 1 - c before the SBC
\* leaves A = x, and SBC M and then ADC M with the carry set to 1 - c before
\* the ADC leaves A = x.
AdcSbcInverse ==
    /\ ThirdStepWas(\h69, \hE9) => cpu.a = cpu0.a
    /\ ThirdStepWas(\hE9, \h69) => cpu.a = cpu0.a

\* 0xF0 + 0x3F + 1 wrapped to 0x30 with a carry out, the carry was cleared,
\* and the SBC brought A back to 0xF0
AdcSbcInverseSeen ==
    /\ ThirdStepWas(\h69, \hE9)
    /\ cpu0.a = \hF0 /\ prg0[2] = \h3F /\ FlagC(cpu0.status) = 1
    /\ pre.cpu.a = \h30 /\ FlagC(pre.cpu.status) = 0
    /\ cpu.a = \hF0


\* the step just taken executed the second instruction of a two-instruction
\* accumulator program: the program began with opcode first and the opcode
\* of this step was op
SecondStepWas(first, op) ==
    /\ last.op = "step" /\ last.addr = \h8001 /\ last.val = op
    /\ prg0[1] = first

\* C17 (SpecOps): ROL and ROR are inverse through the carry: from A = x and
\* carry c, ROL A immediately followed by ROR A leaves A = x and C = c, and
\* ROR A immediately followed by ROL A leaves A = x and C = c.
RolRorInverse ==
    /\ SecondStepWas(\h2A, \h6A) =>
          cpu.a = cpu0.a /\ FlagC(cpu.status) = FlagC(cpu0.status)
    /\ SecondStepWas(\h6A, \h2A) =>
          cpu.a = cpu0.a /\ FlagC(cpu.status) = FlagC(cpu0.status)

\* 0x81 with the carry set: ROR gave 0xC0 with C = 1 and ROL brought back
\* 0x81 with C = 1
RolRorInverseSeen ==
    /\ SecondStepWas(\h6A, \h2A)
    /\ cpu0.a = \h81 /\ FlagC(cpu0.status) = 1
    /\ pre.cpu.a = \hC0 /\ FlagC(pre.cpu.status) = 1
    /\ cpu.a = \h81 /\ FlagC(cpu.status) = 1


\* C18 (SpecOps), as the specification states it: for every 8-bit x, ASL A
\* and then LSR A returns A to x, and LSR A and then ASL A returns A to x.
AslLsrInverse ==
    /\ SecondStepWas(\h0A, \h4A) => cpu.a = cpu0.a
    /\ SecondStepWas(\h4A, \h0A) => cpu.a = cpu0.a

\* C18 (SpecOps), amended: ASL A and then LSR A leaves A = x mod 128, bit 7
\* of x having gone to the carry and a zero come back, so A returns to x
\* exactly when x < 0x80; LSR A and then ASL A leaves A = x - (x mod 2), bit
\* 0 lost the same way, so A returns to x exactly when x is even.
AslLsrClearsEndBit ==
    /\ SecondStepWas(\h0A, \h4A) =>
          /\ cpu.a = cpu0.a % 128
          /\ cpu.a = cpu0.a <=> cpu0.a < 128
    /\ SecondStepWas(\h4A, \h0A) =>
          /\ cpu.a = cpu0.a - (cpu0.a % 2)
          /\ cpu.a = cpu0.a <=> cpu0.a % 2 = 0

\* 0x81: ASL gave 0x02 with C = 1 and LSR gave 0x01, not 0x81
AslLsrClearsEndBitSeen ==
    /\ SecondStepWas(\h0A, \h4A)
    /\ cpu0.a = \h81
    /\ pre.cpu.a = \h02 /\ FlagC(pre.cpu.status) = 1
    /\ cpu.a = \h01


\* the register an immediate compare instruction reads, in the registers c
ComparedRegister(op, c) ==
    IF op = \hC9 THEN c.a ELSE IF op = \hE0 THEN c.x ELSE c.y

\* C19 (SpecOps): compare laws: for CMP (register A), CPX (X) and CPY (Y),
\* every register value R and operand M, after the step C = 1 iff R >= M,
\* Z = 1 iff R = M, N = bit 7 of (R - M) mod 256, and A, X, Y, SP, the V, D
\* and I flags and every bus cell are unchanged.
CompareLaw ==
    \A op \in {\hC9, \hE0, \hC0} :
        FirstStepWas(op) =>
            LET R == ComparedRegister(op, cpu0)
                M == prg0[2]
            IN  /\ FlagC(cpu.status) = 1 <=> R >= M
                /\ FlagZ(cpu.status) = 1 <=> R = M
                /\ FlagN(cpu.status) = BitOf((R - M + 256) % 256, 7)
                /\ cpu.a = cpu0.a /\ cpu.x = cpu0.x /\ cpu.y = cpu0.y
                /\ cpu.sp = cpu0.sp
                /\ FlagV(cpu.status) = FlagV(cpu0.status)
                /\ FlagD(cpu.status) = FlagD(cpu0.status)
                /\ FlagI(cpu.status) = FlagI(cpu0.status)
                /\ mem = pre.mem

\* CPX #0x90 with X = 0x10 and C, Z, N, V, D set before: R < M clears C and
\* Z, 0x10 - 0x90 = 0x80 keeps N, and V and D stay set
CompareLawSeen ==
    /\ FirstStepWas(\hE0)
    /\ cpu0.x = \h10 /\ prg0[2] = \h90 /\ cpu0.status = \hEB
    /\ cpu.status = \hE8 /\ cpu.x = \h10
    /\ mem = pre.mem


\* the byte a status pull takes from the stack page: the cell above the
\* stack pointer the run began with
PulledByte == read(pre.mem, \h0100 + ((cpu0.sp + 1) % 256))

\* C20 (SpecOps): PLP and RTI never load bits 4 (B) and 5 (U) of P from the
\* stack: for every pulled byte s and every prior P, after the pull
\* P' and 0xCF = s and 0xCF, and P' and 0x30 = P and 0x30.
PullKeepsBreakBits ==
    \A op \in {\h28, \h40} :
        FirstStepWas(op) =>
            /\ \A k \in {0, 1, 2, 3, 6, 7} :
                  BitOf(cpu.status, k) = BitOf(PulledByte, k)
            /\ \A k \in {4, 5} :
                  BitOf(cpu.status, k) = BitOf(cpu0.status, k)

\* PLP pulled 0xFF into P = 0x24: everything but B is set afterwards
PullKeepsBreakBitsSeen ==
    /\ FirstStepWas(\h28)
    /\ cpu0.status = \h24 /\ PulledByte = \hFF
    /\ cpu.status = \hEF /\ cpu.sp = \hFE

\* RTI pulled 0x00 into P = 0x30: only B and U are left, and the program
\* counter came from the next two cells
RtiKeepsBreakBitsSeen ==
    /\ FirstStepWas(\h40)
    /\ cpu0.status = \h30 /\ PulledByte = \h00
    /\ cpu.status = \h30 /\ cpu.pc = \h8010


\* the step just taken executed opcode op to completion
StepWas(op) == last.op = "step" /\ last.val = op /\ ~panicked

\* the stack cell k bytes below the cell the stack pointer named before the
\* step just taken, as the bus holds it now
StackCellBelow(k) == read(mem, \h0100 + ((pre.cpu.sp + 256 - k) % 256))

\* C21 (SpecRun): the status byte BRK writes to the stack is P | 0x30, both
\* B and U set in the pushed copy, P being the status register before BRK
\* sets I.  The arm ORs 0x10 into the copy; bit 5 is already set in every P
\* a run from Cpu::new() reaches.
BrkPushesBreakAndUnused ==
    StepWas(\h00) => StackCellBelow(2) = BitOr(pre.cpu.status, \h30)

\* LDA #$FF, PHA, PLP, BRK: P is 0xEF before the BRK at 0x8004, the byte at
\* 0x01FB is 0xFF and P is 0xEF afterwards, I being set already
BrkPushesBreakAndUnusedSeen ==
    /\ StepWas(\h00) /\ last.addr = \h8004
    /\ pre.cpu.status = \hEF /\ pre.cpu.sp = \hFD
    /\ read(mem, \h01FB) = \hFF
    /\ cpu.status = \hEF

\* BRK straight after reset: P is 0x24, the byte at 0x01FB is 0x34
BrkFromPowerOnSeen ==
    /\ StepWas(\h00) /\ last.addr = \h8000
    /\ pre.cpu.status = \h24 /\ pre.cpu.sp = \hFD
    /\ read(mem, \h01FB) = \h34
    /\ cpu.status = \h24


\* C22 (SpecFlow): BRK fetched at address p pushes the 16-bit value
\* (p + 2) mod 65536 high byte first then low byte, then the status byte,
\* so SP decreases by 3 (mod 256); it sets the I flag, leaves A, X, Y and
\* the other flags of P unchanged, and sets PC to
\* read(0xFFFE) + 256 * read(0xFFFF).
BrkLaw ==
    StepWas(\h00) =>
        LET ret == (last.addr + 2) % 65536
        IN  /\ StackCellBelow(0) = ret \div 256
            /\ StackCellBelow(1) = ret % 256
            /\ \A k \in {0, 1, 2, 3, 6, 7} :
                  BitOf(StackCellBelow(2), k) = BitOf(pre.cpu.status, k)
            /\ cpu.sp = (pre.cpu.sp + 253) % 256
            /\ FlagI(cpu.status) = 1
            /\ \A k \in {0, 1, 3, 4, 5, 6, 7} :
                  BitOf(cpu.status, k) = BitOf(pre.cpu.status, k)
            /\ cpu.a = pre.cpu.a /\ cpu.x = pre.cpu.x /\ cpu.y = pre.cpu.y
            /\ cpu.pc = read(mem, \hFFFE) + (256 * read(mem, \hFFFF))

\* BRK fetched at 0xFFFF with SP = 0x01 and I clear: the return address
\* wraps to 0x0001, the pushes wrap from 0x0100 to 0x01FF, I is set and PC
\* is the vector 0x0010
BrkLawSeen ==
    /\ StepWas(\h00) /\ last.addr = \hFFFF
    /\ pre.cpu.sp = \h01 /\ pre.cpu.status = \hDB
    /\ read(mem, \h0101) = \h00 /\ read(mem, \h0100) = \h01
    /\ read(mem, \h01FF) = \hDB
    /\ cpu.sp = \hFE /\ cpu.status = \hDF /\ cpu.pc = \h0010


\* the address the JSR of a stack program is fetched at
JsrAddr ==
    IF cpu0.pc = \hFFFD THEN \hFFFD
    ELSE IF prg0[1] = \h20 THEN \h8000 ELSE \h8001

\* the steps a stack program has taken
FlowStepsTaken == MaxFlowSteps - fuel

\* the step just taken executed the RTS at 0x8010 that the JSR of the
\* program jumped to, the step before it being that JSR: the first step of
\* the program, or its second after a NOP
RtsAfterJsr ==
    /\ StepWas(\h60) /\ last.addr = \h8010
    /\ read(pre.mem, JsrAddr) = \h20
    /\ FlowStepsTaken = (IF JsrAddr = \h8001 THEN 3 ELSE 2)

\* C23 (SpecFlow): JSR/RTS round trip: a JSR fetched at address p pushes
\* (p + 2) mod 65536 high-then-low and jumps to its operand word; with the
\* pushed bytes intact and SP at its post-JSR value, RTS sets PC to
\* (p + 3) mod 65536 and restores SP to its pre-JSR value, for every
\* starting SP, 0x00 and 0x01 included, where the push wraps in page one.
JsrRtsRoundTrip ==
    /\ StepWas(\h20) =>
          LET p   == last.addr
              ret == (p + 2) % 65536
          IN  /\ StackCellBelow(0) = ret \div 256
              /\ StackCellBelow(1) = ret % 256
              /\ cpu.sp = (pre.cpu.sp + 254) % 256
              /\ cpu.pc = read(pre.mem, (p + 1) % 65536)
                            + (256 * read(pre.mem, (p + 2) % 65536))
    /\ RtsAfterJsr =>
          /\ cpu.pc = (JsrAddr + 3) % 65536
          /\ cpu.sp = cpu0.sp

\* JSR fetched at 0xFFFD with SP = 0x00: 0xFF went to 0x0100 and to 0x01FF,
\* and the RTS set PC to 0x0000 and SP back to 0x00
JsrRtsRoundTripSeen ==
    /\ RtsAfterJsr /\ JsrAddr = \hFFFD
    /\ cpu0.sp = \h00 /\ pre.cpu.sp = \hFE
    /\ read(mem, \h0100) = \hFF /\ read(mem, \h01FF) = \hFF
    /\ cpu.pc = \h0000 /\ cpu.sp = \h00

\* JSR fetched at 0x8001 with SP = 0x01: 0x80 went to 0x0101, 0x03 to
\* 0x0100, and the RTS set PC to 0x8004 and SP back to 0x01
JsrRtsPageWrapSeen ==
    /\ RtsAfterJsr /\ JsrAddr = \h8001
    /\ cpu0.sp = \h01 /\ pre.cpu.sp = \hFF
    /\ read(mem, \h0101) = \h80 /\ read(mem, \h0100) = \h03
    /\ cpu.pc = \h8004 /\ cpu.sp = \h01


\* the address the BRK of a stack program that starts at 0x8000 is fetched at
BrkAddr == IF prg0[1] = \h00 THEN \h8000 ELSE \h8001

\* the step just taken executed the RTI at 0x8010, the first instruction of
\* the handler, the step before it being the BRK of the program
RtiAfterBrk ==
    /\ StepWas(\h40) /\ last.addr = \h8010
    /\ cpu0.pc = \h8000 /\ read(pre.mem, BrkAddr) = \h00

\* what RTS gives on the stack RTI pulled its address from: the step before
\* the RTI with the status byte pulled, then rts
RtsInPlaceOfRti ==
    rts(pull_status([cpu |-> pre.cpu, mem |-> pre.mem, panic |-> FALSE])).cpu.pc

\* C24 (SpecFlow): RTI does not add 1 to the pulled PC: a BRK fetched at
\* address p followed immediately by RTI leaves PC = (p + 2) mod 65536, SP
\* equal to its pre-BRK value and P equal to its pre-BRK value, the I flag
\* set by BRK being undone by the pulled status, whereas RTS on the same
\* stack contents gives p + 3.
BrkRtiRoundTrip ==
    /\ RtiAfterBrk =>
          /\ cpu.pc = (BrkAddr + 2) % 65536
          /\ cpu.sp = cpu0.sp
          /\ cpu.status = cpu0.status
          /\ RtsInPlaceOfRti = (BrkAddr + 3) % 65536
    /\ (StepWas(\h60) /\ last.addr = \h8011 /\ prg0[1] = \h00) =>
          cpu.pc = (BrkAddr + 3) % 65536

\* BRK fetched at 0x8001 with SP = 0x00 and P = 0x00: BRK left SP = 0xFD and
\* I set, and the RTI left PC = 0x8003, SP = 0x00 and P = 0x00
BrkRtiRoundTripSeen ==
    /\ RtiAfterBrk /\ BrkAddr = \h8001
    /\ cpu0.sp = \h00 /\ cpu0.status = \h00
    /\ pre.cpu.sp = \hFD /\ pre.cpu.status = \h04
    /\ cpu.pc = \h8003 /\ cpu.sp = \h00 /\ cpu.status = \h00

\* BRK fetched at 0x8000 with a handler PLA; RTS: the RTS left PC = 0x8003
BrkRtsSeen ==
    /\ StepWas(\h60) /\ last.addr = \h8011 /\ prg0[1] = \h00
    /\ cpu.pc = \h8003 /\ cpu.sp = cpu0.sp


\* the pointer operand of the JMP (indirect) at 0x8000
JmpPointer == prg0[2] + (256 * prg0[3])

\* C25 (SpecFlow): JMP (indirect) with pointer operand q sets PC low byte to
\* read(q) and PC high byte to read(q + 1) when q's low byte is not 0xFF,
\* and to read(q and 0xFF00) when it is 0xFF; with q = 0x02FF,
\* mem[0x02FF] = 0x80, mem[0x0200] = 0x90, mem[0x0300] = 0xAA the result is
\* PC = 0x9080.  No register other than PC and no bus cell changes.
JmpIndirectLaw ==
    (StepWas(\h6C) /\ last.addr = \h8000) =>
        LET q  == JmpPointer
            hi == IF q % 256 = \hFF
                  THEN read(pre.mem, q - \hFF)
                  ELSE read(pre.mem, (q + 1) % 65536)
        IN  /\ cpu.pc = read(pre.mem, q) + (256 * hi)
            /\ cpu = [pre.cpu EXCEPT !.pc = cpu.pc]
            /\ mem = pre.mem
            /\ (/\ q = \h02FF /\ read(pre.mem, \h02FF) = \h80
                /\ read(pre.mem, \h0200) = \h90 /\ read(pre.mem, \h0300) = \hAA)
                  => cpu.pc = \h9080

\* the pointer 0x02FF with 0x80 there, 0x90 at 0x0200 and 0xAA at 0x0300
JmpIndirectLawSeen ==
    /\ StepWas(\h6C) /\ last.addr = \h8000
    /\ JmpPointer = \h02FF
    /\ read(pre.mem, \h02FF) = \h80 /\ read(pre.mem, \h0200) = \h90
    /\ read(pre.mem, \h0300) = \hAA
    /\ cpu.pc = \h9080


\* the page-one address 0x0100 | sp of the stack pointer value sp + k
PageOne(sp, k) == \h0100 + ((sp + 256 + k) % 256)

\* the bus before the step just taken with the bytes vals written downwards
\* from the cell the stack pointer named
Pushed(vals) ==
    LET at(i) == PageOne(pre.cpu.sp, 1 - i)
        m1 == write(pre.mem, at(1), vals[1])
        m2 == IF Len(vals) >= 2 THEN write(m1, at(2), vals[2]) ELSE m1
    IN  IF Len(vals) >= 3 THEN write(m2, at(3), vals[3]) ELSE m2

\* the byte the step just taken pulled k-th: the cell k above the cell the
\* stack pointer named
Pulled(k) == read(pre.mem, PageOne(pre.cpu.sp, k))

\* C26 (SpecFlow): the stack is a descending stack confined to page one with
\* silent wrap: every push (PHA, PHP, JSR, BRK) writes at 0x0100 | SP and
\* then sets SP to (SP - 1) mod 256, every pull (PLA, PLP, RTS, RTI) first
\* sets SP to (SP + 1) mod 256 and then reads 0x0100 | SP; a push at
\* SP = 0x00 writes 0x0100 and leaves SP = 0xFF, and PHA followed by PLA
\* restores both A and SP for every starting SP.
StackDiscipline ==
    /\ StepWas(\h48) =>
          /\ mem = Pushed(<<pre.cpu.a>>)
          /\ cpu.sp = (pre.cpu.sp + 255) % 256
          /\ pre.cpu.sp = \h00 => (read(mem, \h0100) = pre.cpu.a /\ cpu.sp = \hFF)
    /\ StepWas(\h08) =>
          /\ mem = Pushed(<<StackCellBelow(0)>>)
          /\ cpu.sp = (pre.cpu.sp + 255) % 256
    /\ StepWas(\h20) =>
          /\ mem = Pushed(<<StackCellBelow(0), StackCellBelow(1)>>)
          /\ cpu.sp = (pre.cpu.sp + 254) % 256
    /\ StepWas(\h00) =>
          /\ mem = Pushed(<<StackCellBelow(0), StackCellBelow(1), StackCellBelow(2)>>)
          /\ cpu.sp = (pre.cpu.sp + 253) % 256
    /\ StepWas(\h68) =>
          /\ cpu.sp = (pre.cpu.sp + 1) % 256
          /\ cpu.a = Pulled(1)
          /\ mem = pre.mem
    /\ StepWas(\h28) =>
          /\ cpu.sp = (pre.cpu.sp + 1) % 256
          /\ \A k \in {0, 1, 2, 3, 6, 7} : BitOf(cpu.status, k) = BitOf(Pulled(1), k)
          /\ mem = pre.mem
    /\ StepWas(\h60) =>
          /\ cpu.sp = (pre.cpu.sp + 2) % 256
          /\ cpu.pc = (Pulled(1) + (256 * Pulled(2)) + 1) % 65536
          /\ mem = pre.mem
    /\ StepWas(\h40) =>
          /\ cpu.sp = (pre.cpu.sp + 3) % 256
          /\ \A k \in {0, 1, 2, 3, 6, 7} : BitOf(cpu.status, k) = BitOf(Pulled(1), k)
          /\ cpu.pc = Pulled(2) + (256 * Pulled(3))
          /\ mem = pre.mem
    /\ (StepWas(\h68) /\ last.addr = \h8003 /\ prg0[1] = \h48) =>
          /\ cpu.a = cpu0.a
          /\ cpu.sp = cpu0.sp

\* PHA; LDA #$33; PLA from SP = 0x00 and A = 0xA5: the push went to 0x0100
\* and left SP = 0xFF, and the PLA read 0x0100 and left A = 0xA5, SP = 0x00
StackDisciplineSeen ==
    /\ StepWas(\h68) /\ last.addr = \h8003 /\ prg0[1] = \h48
    /\ cpu0.sp = \h00 /\ cpu0.a = \hA5
    /\ pre.cpu.sp = \hFF /\ pre.cpu.a = \h33
    /\ read(mem, \h0100) = \hA5
    /\ cpu.a = \hA5 /\ cpu.sp = \h00


\* C27 (SpecFlow): PHP writes P | 0x30 at 0x0100 | SP, bits 4 and 5 forced
\* to 1 in the pushed copy only, and leaves P itself, A, X, Y unchanged; a
\* PHP followed immediately by PLP leaves P and SP exactly as before the
\* PHP.
PhpLaw ==
    /\ StepWas(\h08) =>
          /\ \A k \in {4, 5} : BitOf(StackCellBelow(0), k) = 1
          /\ \A k \in {0, 1, 2, 3, 6, 7} :
                BitOf(StackCellBelow(0), k) = BitOf(pre.cpu.status, k)
          /\ cpu.status = pre.cpu.status
          /\ cpu.a = pre.cpu.a /\ cpu.x = pre.cpu.x /\ cpu.y = pre.cpu.y
    /\ (StepWas(\h28) /\ last.addr = \h8001 /\ prg0[1] = \h08) =>
          /\ cpu.status = cpu0.status
          /\ cpu.sp = cpu0.sp
    /\ (StepWas(\h28) /\ last.addr = \h8002 /\ prg0[1] = \h08) =>
          /\ cpu.status = cpu0.status
          /\ cpu.sp = cpu0.sp

\* PHP; PLP from P = 0x00 and SP = 0x00: 0x30 went to 0x0100, and the PLP
\* left P = 0x00 and SP = 0x00
PhpLawSeen ==
    /\ StepWas(\h28) /\ last.addr = \h8001 /\ prg0[1] = \h08
    /\ cpu0.status = \h00 /\ cpu0.sp = \h00
    /\ read(mem, \h0100) = \h30 /\ pre.cpu.sp = \hFF /\ pre.cpu.status = \h00
    /\ cpu.status = \h00 /\ cpu.sp = \h00

\* PHP; SEC; PLP from P = 0x24: the carry set in between is undone
PhpSecPlpSeen ==
    /\ StepWas(\h28) /\ last.addr = \h8002 /\ prg0[1] = \h08
    /\ cpu0.status = \h24 /\ pre.cpu.status = \h25
    /\ cpu.status = \h24


\* the file offset the PRG-ROM of rom_file starts at: past the header and,
\* when bit 2 of header byte 6 is set, past the 512-byte trainer
PrgStart == IF (rom_file[7] \div 4) % 2 = 1 THEN 16 + 512 ELSE 16

\* C28 (SpecRom): ROM loader: when the trainer bit (header byte 6, mask
\* 0x04) is set, the PRG-ROM bytes returned by Rom::parse are the prg_size
\* bytes starting at file offset 16 + 512, the trainer skipped, and the
\* CHR-ROM bytes follow them; when the bit is clear they start at offset 16.
TrainerSkipped ==
    rom_data.kind = "ok" =>
        LET prg_size == rom_file[5] * 16384
            chr_size == rom_file[6] * 8192
        IN  /\ rom_data.prg_rom = SubSeq(rom_file, PrgStart + 1, PrgStart + prg_size)
            /\ rom_data.chr_rom = SubSeq(rom_file, PrgStart + prg_size + 1,
                                         PrgStart + prg_size + chr_size)


\* C29 (SpecOps): LSR, for every operand v: result = v >> 1, C = bit 0 of
\* v, N = 0, and Z = 1 iff the result is 0, so LSR of 0x01 or 0x00 sets Z
\* and LSR of 0x02 executed with Z previously set clears Z.
LsrLaw ==
    FirstStepWas(\h4A) =>
        LET v == cpu0.a
        IN  /\ cpu.a = v \div 2
            /\ FlagC(cpu.status) = v % 2
            /\ FlagN(cpu.status) = 0
            /\ FlagZ(cpu.status) = 1 <=> v \div 2 = 0


\* the operand byte d of the instruction at 0x8000, the bus cell a before the
\* step, and the word whose low byte is at page-zero cell p and whose high
\* byte is at page-zero cell (p + 1) mod 256
ZpOperand == prg0[2]
CellBefore(a) == read(pre.mem, a)
ZeroPageWord(p) == CellBefore(p % 256) + (256 * CellBefore((p + 1) % 256))

\* the addresses the four modes resolve to, as the claim gives them
ZpXAddr == (ZpOperand + cpu0.x) % 256
ZpYAddr == (ZpOperand + cpu0.y) % 256
IndXAddr == ZeroPageWord((ZpOperand + cpu0.x) % 256)
IndYAddr == (ZeroPageWord(ZpOperand) + cpu0.y) % 65536

\* C30 (SpecZp): all zero-page-based address arithmetic wraps inside page
\* zero: for zero-page,X / zero-page,Y the effective address is
\* (d + index) mod 256; for (Indirect,X) the pointer is p = (d + X) mod 256
\* and the effective address is read(p) + 256 * read((p + 1) mod 256); for
\* (Indirect),Y the base is read(d) + 256 * read((d + 1) mod 256), so with
\* d = 0xFF the two pointer bytes come from 0x00FF and 0x0000, and Y is then
\* added with 16-bit wrap.  No operand or pointer byte is fetched from
\* 0x0100 or above by these modes.
ZeroPageWraps ==
    /\ FirstStepWas(\hB5) => cpu.a = CellBefore(ZpXAddr) /\ mem = pre.mem
    /\ FirstStepWas(\h95) => mem = write(pre.mem, ZpXAddr, cpu0.a)
    /\ FirstStepWas(\hB6) => cpu.x = CellBefore(ZpYAddr) /\ mem = pre.mem
    /\ FirstStepWas(\h96) => mem = write(pre.mem, ZpYAddr, cpu0.x)
    /\ FirstStepWas(\hF6) =>
          mem = write(pre.mem, ZpXAddr, (CellBefore(ZpXAddr) + 1) % 256)
    /\ FirstStepWas(\hA1) => cpu.a = CellBefore(IndXAddr) /\ mem = pre.mem
    /\ FirstStepWas(\h81) => mem = write(pre.mem, IndXAddr, cpu0.a)
    /\ FirstStepWas(\hB1) => cpu.a = CellBefore(IndYAddr) /\ mem = pre.mem
    /\ FirstStepWas(\h91) => mem = write(pre.mem, IndYAddr, cpu0.a)
    /\ (FirstStepWas(\h91) /\ ZpOperand = \hFF) =>
          mem = write(pre.mem,
                      (CellBefore(\h00FF) + (256 * CellBefore(\h0000)) + cpu0.y) % 65536,
                      cpu0.a)

\* STA ($FF),Y with Y = 0x20: the pointer bytes 0xF0 and 0xFF came from
\* 0x00FF and 0x0000, 0xFFF0 + 0x20 wrapped to 0x0010, and A went there
ZeroPageWrapsSeen ==
    /\ FirstStepWas(\h91) /\ ZpOperand = \hFF /\ cpu0.y = \h20
    /\ CellBefore(\h00FF) = \hF0 /\ CellBefore(\h0000) = \hFF
    /\ CellBefore(\h0100) = \h41
    /\ CellBefore(\h0010) # \hC3
    /\ read(mem, \h0010) = \hC3

\* STA $80,X with X = 0xFF: A went to 0x007F, and 0x017F is as it was
ZeroPageIndexedSeen ==
    /\ FirstStepWas(\h95) /\ ZpOperand = \h80 /\ cpu0.x = \hFF
    /\ read(mem, \h007F) = \hC3
    /\ read(mem, \h017F) = CellBefore(\h017F) /\ CellBefore(\h017F) # \hC3

\* LDA ($FF,X) with X = 0x00: the pointer is 0xFFF0, read in PRG-ROM
ZeroPageIndirectXSeen ==
    /\ FirstStepWas(\hA1) /\ ZpOperand = \hFF /\ cpu0.x = \h00
    /\ IndXAddr = \hFFF0
    /\ cpu.a = CellBefore(\hFFF0)


\* ---- conditional branches ----

\* the eight branch opcodes, and the condition each one tests
BranchOpcodes == { \hF0, \hD0, \hB0, \h90, \h30, \h10, \h70, \h50 }

BranchTaken(op, status) ==
    CASE op = \hF0 -> FlagZ(status) = 1
      [] op = \hD0 -> FlagZ(status) = 0
      [] op = \hB0 -> FlagC(status) = 1
      [] op = \h90 -> FlagC(status) = 0
      [] op = \h30 -> FlagN(status) = 1
      [] op = \h10 -> FlagN(status) = 0
      [] op = \h70 -> FlagV(status) = 1
      [] op = \h50 -> FlagV(status) = 0

\* the operand byte of the instruction just executed, and its signed value
BranchOffset == read(pre.mem, (last.addr + 1) % 65536)
SignedOffset == IF BranchOffset >= 128 THEN BranchOffset - 256 ELSE BranchOffset

\* C31: a branch at p with operand o ends with PC = (p + 2 + signed(o)) mod
\* 65536 when its condition holds (BEQ Z=1, BNE Z=0, BCS C=1, BCC C=0, BMI N=1,
\* BPL N=0, BVS V=1, BVC V=0) and with PC = (p + 2) mod 65536 when it does
\* not; it never fails, and A, X, Y, SP, P and the bus are as before.
BranchLaw ==
    (last.op = "step" /\ last.val \in BranchOpcodes) =>
        /\ ~panicked
        /\ cpu.pc = IF BranchTaken(last.val, pre.cpu.status)
                    THEN (last.addr + 2 + SignedOffset) % 65536
                    ELSE (last.addr + 2) % 65536
        /\ cpu.a = pre.cpu.a /\ cpu.x = pre.cpu.x /\ cpu.y = pre.cpu.y
        /\ cpu.sp = pre.cpu.sp /\ cpu.status = pre.cpu.status
        /\ mem = pre.mem

\* BEQ at 0xFFFF with Z set and operand 0x80 (read at 0x0000): the PC went
\* from 0x0001 back by 128 to 0xFF81
BranchLawSeen ==
    /\ last.op = "step" /\ last.val = \hF0 /\ last.addr = \hFFFF
    /\ FlagZ(pre.cpu.status) = 1
    /\ BranchOffset = \h80
    /\ cpu.pc = \hFF81

\* BNE with Z set falls through to the next instruction
BranchNotTakenSeen ==
    /\ last.op = "step" /\ last.val = \hD0 /\ last.addr = \h8000
    /\ FlagZ(pre.cpu.status) = 1
    /\ BranchOffset = \h7F
    /\ cpu.pc = \h8002


\* ---- instructions that keep the flags ----

StoreOpcodes ==
    { \h85, \h95, \h8D, \h9D, \h99, \h81, \h91,
      \h86, \h96, \h8E,
      \h84, \h94, \h8C }

NopOpcodes1 == { \hEA, \h1A, \h3A, \h5A, \h7A, \hDA, \hFA }
NopOpcodes2 ==
    { \h80, \h82, \h89, \hC2, \hE2, \h04, \h44, \h64,
      \h14, \h34, \h54, \h74, \hD4, \hF4 }
NopOpcodes3 == { \h0C, \h1C, \h3C, \h5C, \h7C, \hDC, \hFC }
NopOpcodes == NopOpcodes1 \cup NopOpcodes2 \cup NopOpcodes3

\* stores, TXS, PHA, PHP, JMP, JSR, RTS, branches and NOPs
FlagKeepers ==
    StoreOpcodes \cup { \h9A, \h48, \h08, \h4C, \h6C, \h20, \h60 }
        \cup BranchOpcodes \cup NopOpcodes

\* C32: a completed STA, STX, STY (any addressing mode), TXS, PHA, PHP, JMP,
\* JSR, RTS, branch or NOP variant leaves P bit for bit as it was, and TXS
\* leaves SP equal to X.
FlagsKept ==
    /\ (last.op = "step" /\ last.val \in FlagKeepers /\ ~panicked) =>
          cpu.status = pre.cpu.status
    /\ StepWas(\h9A) => cpu.sp = pre.cpu.x /\ cpu.x = pre.cpu.x

\* STA $7F with A = 0xFF and N clear: the negative byte went to memory, and
\* N is still clear
FlagsKeptSeen ==
    /\ StepWas(\h85) /\ last.addr = \h8000
    /\ pre.cpu.a = \hFF /\ FlagN(pre.cpu.status) = 0
    /\ read(pre.mem, \h007F) = \h00
    /\ read(mem, \h007F) = \hFF
    /\ FlagN(cpu.status) = 0

\* TXS with X = 0x01 and SP = 0x00, N set and Z clear before and after
TxsSeen ==
    /\ StepWas(\h9A)
    /\ pre.cpu.x = \h01 /\ pre.cpu.sp = \h00
    /\ cpu.sp = \h01
    /\ cpu.status = \hE5


\* ---- NOP variants ----

\* the number of bytes of a NOP variant, opcode included
NopLength(op) ==
    IF op \in NopOpcodes1 THEN 1 ELSE IF op \in NopOpcodes2 THEN 2 ELSE 3

\* C33: a NOP variant at p ends with PC = p + 1 (one-byte forms 0xEA, 0x1A,
\* 0x3A, 0x5A, 0x7A, 0xDA, 0xFA), p + 2 (two-byte forms) or p + 3 (three-byte
\* forms), all mod 65536, and A, X, Y, SP, P and the bus are as before.
NopLaw ==
    (last.op = "step" /\ last.val \in NopOpcodes) =>
        /\ ~panicked
        /\ cpu = [pre.cpu EXCEPT !.pc = (last.addr + NopLength(last.val)) % 65536]
        /\ mem = pre.mem


\* ---- read-modify-write on memory ----

\* the effective address of the first instruction, the byte it held before
\* the step and the carry before the step
RmwAddr == MemTarget(prg0[1], prg0[2], prg0[3], cpu0.x)
RmwBefore == read(pre.mem, RmwAddr)
CarryBefore == FlagC(pre.cpu.status)

\* the operation of the opcode applied to byte v with carry c: bits 5..7 of
\* the opcode select ASL, ROL, LSR, ROR, DEC or INC
RmwResult(op, v, c) ==
    LET sel == op \div 32
    IN  CASE sel = 0 -> (2 * v) % 256
          [] sel = 1 -> ((2 * v) + c) % 256
          [] sel = 2 -> v \div 2
          [] sel = 3 -> (v \div 2) + (128 * c)
          [] sel = 6 -> (v + 255) % 256
          [] sel = 7 -> (v + 1) % 256

\* the carry after: bit 7 of v for ASL and ROL, bit 0 for LSR and ROR, the
\* carry before for DEC and INC
RmwCarry(op, v, c) ==
    LET sel == op \div 32
    IN  CASE sel \in {0, 1} -> v \div 128
          [] sel \in {2, 3} -> v % 2
          [] OTHER -> c

\* C34 (SpecMem): INC, DEC, ASL, LSR, ROL, ROR on a writable memory cell e:
\* after the step the cell holds the operation applied to the byte it held
\* before (INC/DEC mod 256, rotates with the carry from before), C, Z and N
\* are those of that operation on that byte, the other flags and A, X, Y,
\* SP are unchanged, and no other bus cell has changed.
RmwLaw ==
    (FirstStepWas(prg0[1]) /\ prg0[1] \in RmwOpcodes /\ Writable(RmwAddr)) =>
        LET r == RmwResult(prg0[1], RmwBefore, CarryBefore)
        IN  /\ ~panicked
            /\ read(mem, RmwAddr) = r
            /\ mem = write(pre.mem, RmwAddr, r)
            /\ FlagC(cpu.status) = RmwCarry(prg0[1], RmwBefore, CarryBefore)
            /\ FlagZ(cpu.status) = 1 <=> r = 0
            /\ FlagN(cpu.status) = r \div 128
            /\ (cpu.status \div 4) % 16 = (pre.cpu.status \div 4) % 16
            /\ FlagV(cpu.status) = FlagV(pre.cpu.status)
            /\ cpu.a = pre.cpu.a /\ cpu.x = pre.cpu.x /\ cpu.y = pre.cpu.y
            /\ cpu.sp = pre.cpu.sp


\* ---- BIT ----

\* A and M have no set bit in common
NoCommonBit(a, m) == \A k \in 0..7 : BitOf(a, k) = 0 \/ BitOf(m, k) = 0

\* C35 (SpecMem): BIT with operand M: Z = 1 iff (A and M) = 0, N = bit 7 of
\* M, V = bit 6 of M, and A, X, Y, SP, the flags C, I, D and the bus are as
\* before.
BitLaw ==
    (FirstStepWas(prg0[1]) /\ prg0[1] \in BitOpcodes) =>
        LET M == RmwBefore
        IN  /\ ~panicked
            /\ FlagZ(cpu.status) = 1 <=> NoCommonBit(pre.cpu.a, M)
            /\ FlagN(cpu.status) = BitOf(M, 7)
            /\ FlagV(cpu.status) = BitOf(M, 6)
            /\ FlagC(cpu.status) = FlagC(pre.cpu.status)
            /\ FlagI(cpu.status) = FlagI(pre.cpu.status)
            /\ FlagD(cpu.status) = FlagD(pre.cpu.status)
            /\ cpu.a = pre.cpu.a /\ cpu.x = pre.cpu.x /\ cpu.y = pre.cpu.y
            /\ cpu.sp = pre.cpu.sp
            /\ mem = pre.mem

\* BIT $6000 with A = 0x01 and M = 0x40, from Z and V clear: Z and V are
\* set, N is clear and A is still 0x01
BitLawSeen ==
    /\ FirstStepWas(\h2C) /\ RmwAddr = \h6000
    /\ pre.cpu.a = \h01 /\ RmwBefore = \h40
    /\ pre.cpu.status = \h24
    /\ cpu.status = \h66
    /\ cpu.a = \h01


\* ---- the decimal flag ----

\* P with bit 3 inverted, and P with bit 3 cleared
FlipD(status) == IF FlagD(status) = 1 THEN status - 8 ELSE status + 8
MaskD(status) == status - (8 * FlagD(status))

\* the step just taken, run again from the same registers and bus with the
\* decimal flag inverted
Twin ==
    exec_next_instr([pre.cpu EXCEPT !.status = FlipD(@)], pre.mem, overflow_checks)

\* the stack cell that received P: the first cell pushed by PHP, the third
\* pushed by BRK
PushedStatusCell ==
    IF last.val = \h08 THEN \h0100 + pre.cpu.sp
    ELSE \h0100 + ((pre.cpu.sp + 254) % 256)

ArithOpcodes ==
    { \h69, \h65, \h75, \h6D, \h7D, \h79, \h61, \h71,
      \hE9, \hE5, \hF5, \hED, \hFD, \hF9, \hE1, \hF1 }

\* C36 (SpecStep): the decimal flag does not influence execution: the same
\* step from two states that differ only in bit 3 of P gives the same A, X,
\* Y, SP, PC, the same P but for bit 3, the same outcome and the same bus;
\* for ADC and SBC in particular the same A, C, Z, V, N; after PHP and BRK
\* the bus differs in bit 3 of the pushed status byte and nowhere else.
DecimalIgnored ==
    last.op = "step" =>
        /\ Twin.panic = panicked
        /\ Twin.cpu.a = cpu.a /\ Twin.cpu.x = cpu.x /\ Twin.cpu.y = cpu.y
        /\ Twin.cpu.sp = cpu.sp /\ Twin.cpu.pc = cpu.pc
        /\ MaskD(Twin.cpu.status) = MaskD(cpu.status)
        /\ last.val \in ArithOpcodes => FlagD(Twin.cpu.status) # FlagD(cpu.status)
        /\ IF last.val \in {\h08, \h00}
           THEN Twin.mem = write(mem, PushedStatusCell,
                                 FlipD(read(mem, PushedStatusCell)))
           ELSE Twin.mem = mem

\* ADC #$7F with A = 0xFF and C set: A is 0x7F and C is set with the decimal
\* flag clear and with it set
DecimalIgnoredSeen ==
    /\ last.op = "step" /\ last.val = \h69 /\ ~panicked
    /\ pre.cpu.a = \hFF /\ read(pre.mem, (last.addr + 1) % 65536) = \h7F
    /\ FlagC(pre.cpu.status) = 1
    /\ FlagD(pre.cpu.status) = 0 /\ FlagD(Twin.cpu.status) = 1
    /\ cpu.a = \h7F /\ Twin.cpu.a = \h7F
    /\ FlagC(cpu.status) = 1

\* PHP with the decimal flag clear pushed 0x77, and 0x7F with it set
DecimalPushedSeen ==
    /\ last.op = "step" /\ last.val = \h08 /\ pre.cpu.status = \h67
    /\ read(mem, PushedStatusCell) = \h77
    /\ read(Twin.mem, PushedStatusCell) = \h7F


\* ---- the unused bit and the break bit ----

\* C37 (SpecRun): in every state reached from Cpu::new() by reset and steps,
\* bit 5 of P is 1 and bit 4 is 0: no instruction changes either bit, PLP
\* and RTI pulling any byte included.
UnusedSetBreakClear ==
    BitOf(cpu.status, 5) = 1 /\ BitOf(cpu.status, 4) = 0

\* LDA #$FF, PHA, RTI: the byte pulled is 0xFF and P is 0xEF
UnusedSetBreakClearSeen ==
    /\ StepWas(\h40) /\ last.addr = \h8003
    /\ read(pre.mem, \h0100 + ((pre.cpu.sp + 1) % 256)) = \hFF
    /\ cpu.status = \hEF

\* PHP, PLP: the byte pulled is 0x34 and P is 0x24
PlpKeepsUnusedSeen ==
    /\ StepWas(\h28) /\ last.addr = \h8001
    /\ read(pre.mem, \h0100 + ((pre.cpu.sp + 1) % 256)) = \h34
    /\ cpu.status = \h24


\* ---- one write, one cell ----

\* the backing cell address a decodes to: the array and the index
Cell(a) ==
    CASE a \in \h0000..\h1FFF -> [region |-> "cpu_ram", index |-> a % \h0800]
      [] a \in \h2000..\h3FFF ->
           [region |-> "ppu_registers", index |-> (a - \h2000) % 8]
      [] a \in \h4000..\h4013 \/ a = \h4015 ->
           [region |-> "apu_io_registers", index |-> a - \h4000]
      [] a = \h4014 -> [region |-> "oam_dma", index |-> 0]
      [] a \in \h6000..\h7FFF ->
           [region |-> "cartridge_ram", index |-> a - \h6000]
      [] a \in \h8000..\hFFFF -> [region |-> "prg_rom", index |-> a - \h8000]
      [] OTHER -> [region |-> "none", index |-> a]

\* the cells of the bus whose byte differs from the byte before the last
\* operation
ChangedIn(f) ==
    { i \in (DOMAIN mem[f]) \cup (DOMAIN pre.mem[f]) :
        Get(mem[f], i) # Get(pre.mem[f], i) }

ChangedCells ==
    UNION { { [region |-> f, index |-> i] : i \in ChangedIn(f) } :
            f \in {"cpu_ram", "ppu_registers", "apu_io_registers",
                   "cartridge_ram"} }
      \cup (IF mem.oam_dma # pre.mem.oam_dma
            THEN { [region |-> "oam_dma", index |-> 0] } ELSE {})

\* C38 (SpecBus): write(a, v) changes at most the one backing cell a decodes
\* to: read(b) changes only for b that decodes to the same cell as a (a or a
\* mirror of a in the same region), so RAM, the PPU registers, the APU/IO
\* ports, the OAM-DMA byte and cartridge RAM never alias one another, and
\* PRG-ROM is as before.
WriteTouchesOneCell ==
    last.op = "write" =>
        /\ ChangedCells \subseteq { Cell(last.addr) }
        /\ mem.prg_rom = pre.mem.prg_rom
        /\ \A b \in BusAddrs :
              read(mem, b) # read(pre.mem, b) => Cell(b) = Cell(last.addr)

\* write(0x2008, 1) then write(0x0800, 255): read(0x0000) went from 0 to 255
\* and read(0x2000) is still 1
WriteTouchesOneCellSeen ==
    /\ last = [op |-> "write", addr |-> \h0800, val |-> 255]
    /\ read(pre.mem, \h0000) = 0 /\ read(mem, \h0000) = 255
    /\ read(mem, \h2000) = 1
    /\ ChangedCells = { [region |-> "cpu_ram", index |-> 0] }


\* ---- instruction length ----

\* the bytes of the instruction with opcode op, opcode included, from the
\* layout of the 6502 opcode byte aaabbbcc: the column bbb selects the
\* addressing mode within the group cc
InstrLength(op) ==
    LET cc  == op % 4
        bbb == (op \div 4) % 8
    IN  CASE bbb \in {1, 5}                    -> 2
          [] bbb \in {3, 7}                    -> 3
          [] bbb = 4                           -> 2
          [] bbb = 6 /\ cc \in {1, 3}          -> 3
          [] bbb = 6                           -> 1
          [] bbb = 2 /\ cc \in {1, 3}          -> 2
          [] bbb = 2                           -> 1
          [] bbb = 0 /\ cc \in {1, 2, 3}       -> 2
          [] bbb = 0 /\ op = \h20              -> 3
          [] bbb = 0 /\ op \in {\h00, \h40, \h60} -> 1
          [] OTHER                             -> 2

\* JMP, JMP indirect, JSR, RTS, RTI, BRK
ControlOpcodes == { \h4C, \h6C, \h20, \h60, \h40, \h00 }

\* the step just taken was of an implemented opcode that is not a control
\* transfer and not a taken branch
Sequential ==
    /\ last.op = "step"
    /\ last.val \in Opcodes
    /\ last.val \notin Unimplemented
    /\ last.val \notin ControlOpcodes
    /\ ~(last.val \in BranchOpcodes /\ BranchTaken(last.val, pre.cpu.status))

\* C39 (SpecStep): a step of an implemented opcode other than JMP, JSR, RTS,
\* RTI, BRK and a taken branch, started at PC = p, ends with
\* PC = (p + 1 + n) mod 65536, n the operand bytes of the addressing mode,
\* whatever the registers and the memory hold.
PcAdvancesByLength ==
    Sequential =>
        /\ ~panicked
        /\ cpu.pc = (last.addr + InstrLength(last.val)) % 65536


\* ---- malformed ROM files ----

\* rom_file has a whole header with the iNES magic
HeaderValid == Len(rom_file) >= 16 /\ SubSeq(rom_file, 1, 4) = NesMagic

\* the bytes a file with this header declares: header, trainer, PRG-ROM and
\* CHR-ROM
DeclaredLen == PrgStart + (rom_file[5] * 16384) + (rom_file[6] * 8192)

\* C40 (SpecRom): Rom::parse returns Ok or Err for every file and never
\* fails abruptly: Err for a file shorter than 16 bytes or without the magic
\* 4E 45 53 1A, and Err too for a file with a valid header whose declared
\* PRG/CHR sizes (plus trainer) exceed the bytes present or whose PRG size
\* is 0.
RomParseTotal ==
    rom_data.kind # "none" =>
        /\ rom_data.kind \in {"ok", "err"}
        /\ ~HeaderValid => rom_data.kind = "err"
        /\ (HeaderValid /\ (DeclaredLen > Len(rom_file) \/ rom_file[5] = 0)) =>
              rom_data.kind = "err"

=============================================================================
